---- MODULE Spec2Model ----
(***************************************************************************)
(* Model of jay's pointer-cursor subsystem (src/src/cursor.rs): the        *)
(* Xcursor decoder, the theme search, template loading/instantiation and   *)
(* the animation clock of animated cursors; and of the xdg_surface object  *)
(* (src/src/ifs/wl_surface/xdg_surface.rs): its role, its role object, its *)
(* popups and its configure serials.                                       *)
(*                                                                         *)
(* Several specifications share the variables below; each one drives one   *)
(* part of the program and leaves the variables of the others untouched.   *)
(***************************************************************************)
EXTENDS Integers, Sequences, FiniteSets, TLC

VARIABLES
    file,       \* the cursor file handed to parser_cursor_file
    scales,     \* the requested scales, a sequence (state.scales)
    sizes,      \* the requested logical sizes, a sequence (state.cursor_sizes)
    overflow_checks, \* build profile: TRUE = arithmetic overflow panics (debug)
    presult,    \* result of the last decode, or NoResult
    pscanned,   \* did the last decode reach the end of the table of contents?
    ptargets,   \* the decoder's targets after the scan of the table of contents
    preads,     \* the positions of the image chunks the last decode read
    found,      \* did the theme search find a cursor file?
    gfx_fails,  \* the kinds of pixel data the GfxContext fails to import
    tmpl,       \* result of ServerCursorTemplate::load, or NoResult
    inst,       \* the cursor created by instantiate, or NoInstance
    inst_size,  \* the size that was given to instantiate
    call,       \* the last call made on the cursor: what it saw and returned
    advanced,   \* how many calls of tick have advanced the cursor so far
    now,        \* the clock (state.now(), eng.now()), in nanoseconds
    names,      \* open_cursor: the candidate names, in priority order
    theme,      \* open_cursor: the supplied theme, or None
    paths,      \* open_cursor: the search paths, in order
    cursor_files,   \* the cursor files that exist: <<path, theme, name>>
    index_themes,   \* what find_parent_themes returns for <<path, theme>>
    env_home,           \* the environment variable HOME, or None
    env_xcursor_path,   \* the environment variable XCURSOR_PATH, or None
    cursor_paths,   \* result of find_cursor_paths, or NoResult
    lstep,      \* where the theme search stands
    tier,       \* open_cursor: in the loop over the supplied theme or "default"
    name_idx,   \* open_cursor: index of the current candidate name
    cur,        \* the (theme, name) of the call of open_cursor_file being made
    retval,     \* the value a call of open_cursor_file has just returned
    stack,      \* the calls of open_cursor_file that are in their parents loop
    pairs_tested,   \* open_cursor: the (theme, name) pairs already visited
    examined,   \* the calls of open_cursor_file so far, and those that probed paths
    lresult,    \* result of the theme search, or NoResult
    index_file, \* the bytes of an index.theme, or None when it cannot be opened
    iparents,   \* result of find_parent_themes on index_file, or NoResult
    other,      \* a second cursor created by instantiate from the same template
    xdg,        \* the XdgSurface objects of a client, by id
    live,       \* the role objects of the client: <<object id, xdg_surface id>>
    xcall       \* the last xdg_surface request: its surface and its result

inputVars == <<file, scales, sizes, overflow_checks>>
parseVars == <<presult, pscanned, ptargets, preads>>
loadVars  == <<found, gfx_fails, tmpl>>
instVars  == <<inst, inst_size, call, advanced, now>>

envVars    == <<env_home, env_xcursor_path, cursor_paths>>
fsVars     == <<names, theme, paths, cursor_files, index_themes, envVars>>
locateVars == <<lstep, tier, name_idx, cur, retval, stack, pairs_tested, examined, lresult>>

indexVars == <<index_file, iparents>>
xdgVars   == <<xdg, live, xcall>>
restVars  == <<indexVars, other, xdgVars>>

nonLocateVars == <<restVars, inputVars, parseVars, loadVars, instVars, fsVars>>

vars == <<inputVars, parseVars, loadVars, instVars, fsVars, locateVars, restVars>>

-----------------------------------------------------------------------------
(* Bounds of the model                                                     *)

\* Longest table of contents of a generated file.
MaxToc == 3

\* The deepest nesting of open_cursor_file calls the model follows.
MaxDepth == 4

-----------------------------------------------------------------------------
(* Values                                                                  *)

Ok(v) == [ok |-> TRUE, val |-> v]
Err(e) == [ok |-> FALSE, err |-> e]

\* "Not yet computed", shaped like a result so that it compares with one.
NoResult == Err("none")

None == [some |-> FALSE]
Some(v) == [some |-> TRUE, val |-> v]

Abs(x) == IF x < 0 THEN -x ELSE x

Range(s) == {s[i] : i \in DOMAIN s}

-----------------------------------------------------------------------------
(* Xcursor file format constants                                           *)

XCURSOR_MAGIC == 1920295768     \* 0x72756358

\* Chunk types are only ever compared for equality; 0xfffd0002 does not fit
\* the model checker's integers, so the types are kept as their hex text.
XCURSOR_IMAGE_TYPE == "0xfffd0002"
XCURSOR_COMMENT_TYPE == "0xfffe0001"

HEADER_SIZE == 16

\* Target.best_fit starts at i64::MAX, a value above every |size - effective|
\* of two u32 values.  The model checker's integers are 32 bit wide; all sizes
\* of the model are far below this value, which keeps that relation.
I64_MAX == 2147483647

-----------------------------------------------------------------------------
(* Wide arithmetic                                                         *)

\* Numbers wider than the model checker's integers (u32 values above
\* i32::MAX, u64 and usize values) are sequences of base-1000 digits, the
\* least significant first, without leading zero digits.
RECURSIVE Wide(_)
Wide(n) == IF n = 0 THEN <<>> ELSE <<n % 1000>> \o Wide(n \div 1000)

\* A wide number times m plus carry, for m up to 1,000,000.
RECURSIVE WideMulSmall(_, _, _)
WideMulSmall(a, m, carry) ==
    IF a = <<>>
    THEN Wide(carry)
    ELSE LET v == Head(a) * m + carry
         IN  IF m = 0 THEN Wide(carry)
             ELSE <<v % 1000>> \o WideMulSmall(Tail(a), m, v \div 1000)

RECURSIVE WideAdd(_, _, _)
WideAdd(a, b, carry) ==
    IF a = <<>> /\ b = <<>>
    THEN Wide(carry)
    ELSE LET x == IF a = <<>> THEN 0 ELSE Head(a)
             y == IF b = <<>> THEN 0 ELSE Head(b)
             v == x + y + carry
         IN  <<v % 1000>> \o WideAdd(IF a = <<>> THEN a ELSE Tail(a),
                                     IF b = <<>> THEN b ELSE Tail(b), v \div 1000)

\* Drop leading zero digits.
RECURSIVE WideNorm(_)
WideNorm(a) ==
    IF a # <<>> /\ a[Len(a)] = 0 THEN WideNorm(SubSeq(a, 1, Len(a) - 1)) ELSE a

RECURSIVE WideMul(_, _)
WideMul(a, b) ==
    IF b = <<>>
    THEN <<>>
    ELSE WideNorm(WideAdd(WideMulSmall(a, Head(b), 0),
                          IF WideMul(a, Tail(b)) = <<>> THEN <<>>
                          ELSE <<0>> \o WideMul(a, Tail(b)), 0))

\* a < b
WideLess(a, b) ==
    \/ Len(a) < Len(b)
    \/ /\ Len(a) = Len(b)
       /\ \E i \in DOMAIN a :
            /\ a[i] < b[i]
            /\ \A j \in (i + 1)..Len(a) : a[j] = b[j]

U32_MAX == <<295, 967, 294, 4>>                      \* 4,294,967,295
U64_MAX == <<615, 551, 709, 73, 744, 446, 18>>       \* 18,446,744,073,709,551,615
ISIZE_MAX == <<807, 775, 854, 36, 372, 223, 9>>      \* 9,223,372,036,854,775,807

-----------------------------------------------------------------------------
(* parser_cursor_file                                                      *)

\* scale.to_f64() * size, rounded (f64::round: half away from zero).  A Scale
\* is a fixed-point number in units of 1/120.
effective_size(scale, size) == (2 * size * scale + 120) \div 240

NewTarget(scale, size) ==
    [ positions      |-> <<>>,
      effective_size |-> effective_size(scale, size),
      size           |-> size,
      scale          |-> scale,
      best_fit       |-> I64_MAX,
      best_fit_size  |-> 0 ]

\* for scale in scales { for size in sizes { targets.push(..) } }
MakeTargets(scs, szs) ==
    [ k \in 1..(Len(scs) * Len(szs)) |->
        NewTarget(scs[((k - 1) \div Len(szs)) + 1], szs[((k - 1) % Len(szs)) + 1]) ]

\* Mutation: an equally good fit displaces the current best too.
BetterFit_OrEqual(fit, best_fit) == fit <= best_fit

\* Is `fit` a strictly better fit than the best one seen so far?
BetterFit(fit, best_fit) == fit < best_fit

\* Mutation: the positions recorded for the displaced size are kept.
UpdateTarget_NoClear(t, size, position) ==
    LET fit == Abs(size - t.effective_size)
        t1  == IF BetterFit(fit, t.best_fit)
               THEN [t EXCEPT !.best_fit = fit, !.best_fit_size = size]
               ELSE t
    IN  IF size = t1.best_fit_size
        THEN [t1 EXCEPT !.positions = Append(@, position)]
        ELSE t1

\* The body of `for target in &mut targets` for one image entry.
UpdateTarget(t, size, position) ==
    LET fit == Abs(size - t.effective_size)
        t1  == IF BetterFit(fit, t.best_fit)
               THEN [t EXCEPT !.best_fit = fit,
                              !.best_fit_size = size,
                              !.positions = <<>>]
               ELSE t
    IN  IF size = t1.best_fit_size
        THEN [t1 EXCEPT !.positions = Append(@, position)]
        ELSE t1

\* One iteration of `for _ in 0..ntoc`.
ScanEntry(targets, e) ==
    IF e.type # XCURSOR_IMAGE_TYPE
    THEN targets
    ELSE [k \in DOMAIN targets |-> UpdateTarget(targets[k], e.size, e.position)]

RECURSIVE ScanToc(_, _, _)
ScanToc(targets, toc, n) ==
    IF n = 0 THEN targets
    ELSE ScanEntry(ScanToc(targets, toc, n - 1), toc[n])

\* targets.iter().flat_map(|t| t.positions.iter().copied()).collect()
CandidatePositions(targets) ==
    UNION {Range(targets[k].positions) : k \in DOMAIN targets}

\* The u32 fields of an image chunk are held as their 32-bit pattern read as
\* a signed number: the values above i32::MAX are exactly the negative ones
\* (0xffffffff is -1).
\* Mutation: only the first value is converted with a check.
u32_to_i32_ok_FirstOnly(ns) == ns[1] >= 0

\* u32_to_i32: the conversion fails for values above i32::MAX.
u32_to_i32_ok(ns) == \A i \in DOMAIN ns : ns[i] >= 0

\* width as usize * height as usize * 4
num_bytes(width, height) == WideMulSmall(WideMul(Wide(width), Wide(height)), 4, 0)

\* Reading the image chunk at `position`: the chunk header, the conversion
\* of its dimensions, the buffer for the pixel data and the pixel data.
\* reserve_exact panics ("capacity overflow") for more than isize::MAX
\* bytes; memory is taken to suffice for every smaller buffer.
ReadImage(r, position) ==
    IF position \notin DOMAIN r.chunks
    THEN Err("Io")
    ELSE LET c == r.chunks[position] IN
         IF ~u32_to_i32_ok(<<c.width, c.height, c.xhot, c.yhot>>)
         THEN Err("CorruptXcursorFile")
         ELSE IF WideLess(ISIZE_MAX, num_bytes(c.width, c.height))
         THEN Err("panic")
         ELSE IF WideLess(Wide(c.npixels), num_bytes(c.width, c.height))
         THEN Err("Io")
         ELSE Ok([ width  |-> c.width,
                   height |-> c.height,
                   xhot   |-> c.xhot,
                   yhot   |-> c.yhot,
                   delay  |-> c.delay,
                   pixels |-> position ])

\* Mutation: the frame count of the first target is used as it is.
NumFrames_NoCollapse(targets) == Len(targets[1].positions)

\* let mut num = targets[0].positions.len(); collapsed to 1 when the
\* targets disagree.
NumFrames(targets) ==
    LET num == Len(targets[1].positions) IN
    IF num > 1 /\ \E k \in DOMAIN targets : Len(targets[k].positions) # num
    THEN 1
    ELSE num

\* Mutation: every key gets the image of the first target.
FrameImages_FirstTarget(targets, images, i) ==
    [ key \in {<<targets[k].scale, targets[k].size>> : k \in DOMAIN targets} |->
        images[targets[1].positions[i]] ]

\* idx_images of frame i: every target inserts the image at its i-th
\* position under the key (scale, size); a later insert replaces an earlier one.
FrameImages(targets, images, i) ==
    [ key \in {<<targets[k].scale, targets[k].size>> : k \in DOMAIN targets} |->
        LET last == CHOOSE k \in DOMAIN targets :
                      /\ <<targets[k].scale, targets[k].size>> = key
                      /\ \A j \in DOMAIN targets :
                           <<targets[j].scale, targets[j].size>> = key => j <= k
        IN  images[targets[last].positions[i]] ]

\* Mutation: the frames are collected from the last candidate to the first.
BuildFrames_LastFirst(targets, images) ==
    LET num == NumFrames(targets) IN
    IF \E k \in DOMAIN targets : Len(targets[k].positions) < num
    THEN Err("panic")
    ELSE Ok([i \in 1..num |-> FrameImages(targets, images, num + 1 - i)])

BuildFrames(targets, images) ==
    LET num == NumFrames(targets) IN
    IF \E k \in DOMAIN targets : Len(targets[k].positions) < num
    THEN Err("panic")            \* target.positions[i] out of bounds
    ELSE Ok([i \in 1..num |-> FrameImages(targets, images, i)])

\* The entries `for _ in 0..ntoc` can read.  With header > 16 and wrapping
\* arithmetic the seek goes forward by 2^32 - (header - 16) bytes, past the
\* end of the file: no entry is left to read there.
ReadableToc(r) == IF r.header > HEADER_SIZE THEN <<>> ELSE r.toc

\* `targets` when the loop over the table of contents has ended.
ScannedTargets(r, scs, szs) ==
    ScanToc(MakeTargets(scs, szs), ReadableToc(r), r.ntoc)

\* One run of parser_cursor_file: its result, and (for inspection) the
\* targets as they stood when the run ended and the positions of the image
\* chunks it read or tried to read.
Run(result, scanned, targets, reads) ==
    [result |-> result, scanned |-> scanned, targets |-> targets, reads |-> reads]

\* The runs of parser_cursor_file on file r.  It is a set because the
\* candidate positions are visited in the iteration order of a hash set: when
\* several chunks are unreadable, the error of any of them may be the one
\* returned.
DecodeRuns(r, scs, szs) ==
    IF r.magic # XCURSOR_MAGIC \/ r.header < HEADER_SIZE
    THEN {Run(Err("NotAnXcursorFile"), FALSE, <<>>, {})}
    ELSE IF r.header > HEADER_SIZE /\ overflow_checks
    THEN {Run(Err("panic"), FALSE, <<>>, {})}  \* HEADER_SIZE - header overflows u32
    ELSE IF r.ntoc > 65536
    THEN {Run(Err("OversizedXcursorFile"), FALSE, <<>>, {})}
    ELSE IF r.ntoc > Len(ReadableToc(r))
    THEN {Run(Err("Io"), FALSE, <<>>, {})}
    ELSE
    LET targets   == ScannedTargets(r, scs, szs)
        positions == CandidatePositions(targets)
        read      == [p \in positions |-> ReadImage(r, p)]
        failed    == {p \in positions : ~read[p].ok}
    IN  IF positions = {}
        THEN {Run(Err("EmptyXcursorFile"), TRUE, targets, {})}
        ELSE IF failed # {}
        THEN {Run(read[p], TRUE, targets, before \cup {p}) :
                 p \in failed, before \in SUBSET (positions \ failed)}
        ELSE {Run(BuildFrames(targets, [p \in positions |-> read[p].val]), TRUE, targets,
                  positions)}

\* The results parser_cursor_file can return.
parser_cursor_file(r, scs, szs) == {x.result : x \in DecodeRuns(r, scs, szs)}

-----------------------------------------------------------------------------
(* ServerCursorTemplate::load and instantiate                              *)

\* The pixel data of the synthetic fallback image (four zero bytes); decoded
\* pixel data is named by the position of its chunk, which is at least 1.
EMPTY_PIXELS == 0

\* ctx.shmem_texture: the GfxContext is an external collaborator; which
\* imports it fails is an input (gfx_fails).
shmem_texture_ok(data) ==
    IF data = EMPTY_PIXELS THEN "empty" \notin gfx_fails ELSE "decoded" \notin gfx_fails

\* Mutation: the extents start at the hotspot instead of its negation.
from_bytes_OriginAtHotspot(data, width, height, xhot, yhot) ==
    IF shmem_texture_ok(data)
    THEN Ok([ extents |-> [x1 |-> xhot, y1 |-> yhot, width |-> width, height |-> height],
              tex     |-> data ])
    ELSE Err("ImportError")

\* CursorImageScaled::from_bytes
from_bytes(data, width, height, xhot, yhot) ==
    IF shmem_texture_ok(data)
    THEN Ok([ extents |-> [x1 |-> -xhot, y1 |-> -yhot, width |-> width, height |-> height],
              tex     |-> data ])
    ELSE Err("ImportError")

Max(a, b) == IF a >= b THEN a ELSE b

\* delay_ms.max(1) * 1_000_000 in u64, for a declared delay of any width:
\* the product, and whether it is beyond u64::MAX.
delay_ns_u64(delay_ms) ==
    LET clamped == IF WideLess(delay_ms, Wide(1)) THEN Wide(1) ELSE delay_ms
        product == WideMulSmall(clamped, 1000000, 0)
    IN  [val |-> product, overflow |-> WideLess(U64_MAX, product)]

\* Mutation: a zero delay is not clamped.
from_sizes_NoClamp(delay_ms, img_sizes) ==
    [delay_ns |-> delay_ms * 1000000, sizes |-> img_sizes]

\* CursorImage::from_sizes
from_sizes(delay_ms, img_sizes) ==
    [delay_ns |-> Max(delay_ms, 1) * 1000000, sizes |-> img_sizes]

\* Mutation: the entries of every size are taken.
for_size_AnySize(img, size) ==
    [ delay_ns |-> img.delay_ns,
      scales   |-> [sc \in {k[1] : k \in DOMAIN img.sizes} |->
                      img.sizes[CHOOSE k \in DOMAIN img.sizes : k[1] = sc]] ]

\* CursorImage::for_size
for_size(img, size) ==
    [ delay_ns |-> img.delay_ns,
      scales   |-> [sc \in {k[1] : k \in {j \in DOMAIN img.sizes : j[2] = size}} |->
                      img.sizes[<<sc, size>>]] ]

\* open_cursor, from the outcome of the theme search on: NotFound without a
\* file, the decoder's result with one.
open_cursor(r, scs, szs) ==
    IF ~found THEN {Err("NotFound")} ELSE parser_cursor_file(r, scs, szs)

\* The uploads of one decoded frame: from_bytes for every image of the map.
UploadFrame(frame) ==
    [k \in DOMAIN frame |->
        from_bytes(frame[k].pixels, frame[k].width, frame[k].height,
                   frame[k].xhot, frame[k].yhot)]

FrameUploaded(frame) == \A k \in DOMAIN frame : UploadFrame(frame)[k].ok

FrameSizes(frame) == [k \in DOMAIN frame |-> UploadFrame(frame)[k].val]

\* What load does with a texture-import error of a decoded image: the `?`
\* operator returns it to the caller.
RealImportFailure(scs, szs) == {Err("ImportError")}

\* Mutation: the synthetic image is inserted for the first size only.
Fallback_FirstSizeOnly(scs, szs) ==
    LET keys == {<<sc, szs[1]>> : sc \in Range(scs)}
        up   == from_bytes(EMPTY_PIXELS, 1, 1, 0, 0)
    IN  IF keys # {} /\ ~up.ok
        THEN {Err("ImportError")}
        ELSE {Ok([ var     |-> "Static",
                   images  |-> <<from_sizes(0, [k \in keys |-> up.val])>>,
                   xcursor |-> <<>> ])}

\* The Err(e) arm of load: a 1x1 image for every (scale, size).
Fallback(scs, szs) ==
    LET keys == {<<sc, sz>> : sc \in Range(scs), sz \in Range(szs)}
        up   == from_bytes(EMPTY_PIXELS, 1, 1, 0, 0)
    IN  IF keys # {} /\ ~up.ok
        THEN {Err("ImportError")}
        ELSE {Ok([ var     |-> "Static",
                   images  |-> <<from_sizes(0, [k \in keys |-> up.val])>>,
                   xcursor |-> <<>> ])}

\* The delays the animated arm can give frame `frame`: delay_ms is
\* overwritten by every image of the map, in the iteration order of a hash
\* map, so the delay of any of its images may be the last one written.
FrameDelays(frame) ==
    IF DOMAIN frame = {} THEN {0} ELSE {frame[k].delay : k \in DOMAIN frame}

\* Mutation: a decode of up to two frames gives a Static template.
LoadDecoded_StaticUpToTwo(images, scs, szs) ==
    IF \E i \in DOMAIN images : ~FrameUploaded(images[i])
    THEN RealImportFailure(scs, szs)
    ELSE IF Len(images) <= 2
    THEN {Ok([ var     |-> "Static",
               images  |-> <<from_sizes(0, FrameSizes(images[1]))>>,
               xcursor |-> images ])}
    ELSE {Ok([ var     |-> "Animated",
               images  |-> [i \in DOMAIN images |-> from_sizes(0, FrameSizes(images[i]))],
               xcursor |-> images ])}

\* The Ok(cs) arm of load.
LoadDecoded(images, scs, szs) ==
    IF \E i \in DOMAIN images : ~FrameUploaded(images[i])
    THEN RealImportFailure(scs, szs)
    ELSE IF Len(images) = 1
    THEN {Ok([ var     |-> "Static",
               images  |-> <<from_sizes(0, FrameSizes(images[1]))>>,
               xcursor |-> images ])}
    ELSE {Ok([ var     |-> "Animated",
               images  |-> [i \in DOMAIN images |-> from_sizes(d[i], FrameSizes(images[i]))],
               xcursor |-> images ]) :
            d \in {e \in [DOMAIN images -> UNION {FrameDelays(images[i]) : i \in DOMAIN images}] :
                      \A i \in DOMAIN images : e[i] \in FrameDelays(images[i])}}

\* Mutation: the error of open_cursor is returned to the caller.
LoadFrom_Propagate(cs, scs, szs) ==
    IF cs.ok THEN LoadDecoded(cs.val, scs, szs) ELSE {cs}

\* load, for one result cs of open_cursor.  A panic of the decoder unwinds
\* through load.
LoadFrom(cs, scs, szs) ==
    IF cs.ok THEN LoadDecoded(cs.val, scs, szs)
    ELSE IF cs.err = "panic" THEN {cs}
    ELSE Fallback(scs, szs)

\* ServerCursorTemplate::load: the set of results it can return.
load(r, scs, szs) ==
    UNION {LoadFrom(cs, scs, szs) : cs \in open_cursor(r, scs, szs)}

\* Mutation: the epoch is the start of the clock, and the deadline the delay
\* of the last frame.
instantiate_FixedEpoch(t, size, t_now) ==
    IF t.var = "Static"
    THEN [kind |-> "Static", image |-> for_size(t.images[1], size)]
    ELSE [ kind   |-> "Animated",
           start  |-> 0,
           next   |-> t.images[Len(t.images)].delay_ns,
           idx    |-> 0,
           images |-> [i \in DOMAIN t.images |-> for_size(t.images[i], size)] ]

\* ServerCursorTemplate::instantiate, with state.now() = t_now
instantiate(t, size, t_now) ==
    IF t.var = "Static"
    THEN [kind |-> "Static", image |-> for_size(t.images[1], size)]
    ELSE [ kind   |-> "Animated",
           start  |-> t_now,
           next   |-> t.images[1].delay_ns,
           idx    |-> 0,
           images |-> [i \in DOMAIN t.images |-> for_size(t.images[i], size)] ]

-----------------------------------------------------------------------------
(* The Cursor operations of StaticCursor and AnimatedCursor                *)

\* Mutation: the deadline grows by the delay of the frame that was current.
AnimatedCursor_tick_OldDelay(c, t_now) ==
    LET dist == t_now - c.start IN
    IF dist < c.next
    THEN c
    ELSE [c EXCEPT !.idx = (c.idx + 1) % Len(c.images),
                   !.next = @ + c.images[c.idx + 1].delay_ns]

\* Mutation: the deadline is set to the time of the call plus the delay.
AnimatedCursor_tick_ResetDeadline(c, t_now) ==
    LET dist == t_now - c.start IN
    IF dist < c.next
    THEN c
    ELSE LET idx == (c.idx + 1) % Len(c.images) IN
         [c EXCEPT !.idx = idx, !.next = dist + c.images[idx + 1].delay_ns]

\* Mutation: a tick that advances also moves the epoch to the time of the call.
AnimatedCursor_tick_Restart(c, t_now) ==
    LET dist == t_now - c.start IN
    IF dist < c.next
    THEN c
    ELSE LET idx == (c.idx + 1) % Len(c.images) IN
         [c EXCEPT !.idx = idx, !.next = @ + c.images[idx + 1].delay_ns, !.start = t_now]

\* Mutation: the index is not reduced modulo the number of frames.
AnimatedCursor_tick_NoWrap(c, t_now) ==
    LET dist == t_now - c.start IN
    IF dist < c.next
    THEN c
    ELSE LET idx == (c.idx + 1) % Len(c.images) IN
         [c EXCEPT !.idx = c.idx + 1, !.next = @ + c.images[idx + 1].delay_ns]

\* AnimatedCursor::tick, with eng.now() = t_now.  idx counts from 0.
AnimatedCursor_tick(c, t_now) ==
    LET dist == t_now - c.start IN
    IF dist < c.next
    THEN c
    ELSE LET idx == (c.idx + 1) % Len(c.images) IN
         [c EXCEPT !.idx = idx, !.next = @ + c.images[idx + 1].delay_ns]

\* Cursor::tick: the trait's default does nothing.
tick(c, t_now) ==
    IF c.kind = "Animated" THEN AnimatedCursor_tick(c, t_now) ELSE c

\* Mutation: a plain subtraction in place of the saturating one.
AnimatedCursor_time_until_tick_Plain(c, t_now) == c.next - (t_now - c.start)

\* AnimatedCursor::time_until_tick: next.saturating_sub(dist)
AnimatedCursor_time_until_tick(c, t_now) ==
    LET dist == t_now - c.start IN
    IF c.next >= dist THEN c.next - dist ELSE 0

\* Cursor::time_until_tick: the trait's default is a zero duration.
time_until_tick(c, t_now) ==
    IF c.kind = "Animated" THEN AnimatedCursor_time_until_tick(c, t_now) ELSE 0

\* Rect::move_ and Rect::intersects, on rectangles given by their origin and
\* size.
Rect_move_(r, dx, dy) == [r EXCEPT !.x1 = @ + dx, !.y1 = @ + dy]
Rect_intersects(a, b) ==
    /\ a.x1 < b.x1 + b.width
    /\ b.x1 < a.x1 + a.width
    /\ a.y1 < b.y1 + b.height
    /\ b.y1 < a.y1 + a.height

\* Rect::new_empty(0, 0)
Rect_new_empty == [x1 |-> 0, y1 |-> 0, width |-> 0, height |-> 0]

\* render_img: the call of render_texture it makes, or None when it makes
\* none.  The renderer r gives its scale (in units of 1/120) and its pixel
\* extents; x and y are whole pixels.
render_img(image, r, x, y) ==
    IF r.scale \notin DOMAIN image.scales
    THEN None
    ELSE LET img     == image.scales[r.scale]
             extents == IF r.scale # 120
                        THEN Rect_move_(img.extents, (2 * x * r.scale + 120) \div 240,
                                                     (2 * y * r.scale + 120) \div 240)
                        ELSE Rect_move_(img.extents, x, y)
         IN  IF Rect_intersects(extents, r.pixel_extents)
             THEN Some([tex |-> img.tex, x |-> extents.x1, y |-> extents.y1, scale |-> r.scale])
             ELSE None

\* The image of the frame that is current.
StaticCursor_image(c) == c.image
AnimatedCursor_image(c) == c.images[c.idx + 1]

\* Mutation: the first frame is drawn whatever the index is.
AnimatedCursor_render_FirstFrame(c, r, x, y) == render_img(c.images[1], r, x, y)

\* AnimatedCursor::render
AnimatedCursor_render(c, r, x, y) == render_img(AnimatedCursor_image(c), r, x, y)

\* StaticCursor::render
StaticCursor_render(c, r, x, y) == render_img(StaticCursor_image(c), r, x, y)

render(c, r, x, y) ==
    IF c.kind = "Animated" THEN AnimatedCursor_render(c, r, x, y)
    ELSE StaticCursor_render(c, r, x, y)

\* render_hardware_cursor of both cursors: the current frame at the origin.
render_hardware_cursor(c, r) ==
    LET image == IF c.kind = "Animated" THEN AnimatedCursor_image(c) ELSE StaticCursor_image(c)
    IN  IF r.scale \in DOMAIN image.scales
        THEN Some([tex |-> image.scales[r.scale].tex, x |-> 0, y |-> 0, scale |-> r.scale])
        ELSE None

\* extents_at_scale of both cursors.
extents_at_scale(c, scale) ==
    LET image == IF c.kind = "Animated" THEN AnimatedCursor_image(c) ELSE StaticCursor_image(c)
    IN  IF scale \in DOMAIN image.scales THEN image.scales[scale].extents ELSE Rect_new_empty

\* AnimatedCursor::needs_tick
AnimatedCursor_needs_tick(c) == TRUE

\* Cursor::needs_tick: the trait's default is false.
needs_tick(c) ==
    IF c.kind = "Animated" THEN AnimatedCursor_needs_tick(c) ELSE FALSE

-----------------------------------------------------------------------------
(* open_cursor and open_cursor_file: the theme search                      *)

\* find_parent_themes(<path>/<theme>/index.theme), as far as the search is
\* concerned: None without a readable index file or an Inherits line, else
\* the parents that line names.
find_parent_themes(path, th) ==
    IF <<path, th>> \in DOMAIN index_themes THEN Some(index_themes[<<path, th>>]) ELSE None

\* Mutation: the index file of every search path is read, and the last one
\* with an Inherits line replaces the parents of the earlier ones.
RECURSIVE PathLoop_LastIndex(_, _, _, _)
PathLoop_LastIndex(th, nm, i, parents) ==
    IF i > Len(paths)
    THEN [file |-> None, parents |-> parents]
    ELSE IF <<paths[i], th, nm>> \in cursor_files
    THEN [file |-> Some(<<paths[i], th, nm>>), parents |-> parents]
    ELSE PathLoop_LastIndex(th, nm, i + 1,
              IF find_parent_themes(paths[i], th).some
              THEN find_parent_themes(paths[i], th) ELSE parents)

\* Mutation: the search paths are visited from the last to the first.
RECURSIVE PathLoop_Backwards(_, _, _, _)
PathLoop_Backwards(th, nm, i, parents) ==
    IF i > Len(paths)
    THEN [file |-> None, parents |-> parents]
    ELSE LET j == Len(paths) + 1 - i IN
         IF <<paths[j], th, nm>> \in cursor_files
         THEN [file |-> Some(<<paths[j], th, nm>>), parents |-> parents]
         ELSE PathLoop_Backwards(th, nm, i + 1,
                  IF parents.some THEN parents ELSE find_parent_themes(paths[j], th))

\* `for cursor_path in paths` of open_cursor_file, from path i on: the first
\* path holding the file ends the loop; as long as no parents are known the
\* index file of each path that lacks the cursor file is read.
RECURSIVE PathLoop(_, _, _, _)
PathLoop(th, nm, i, parents) ==
    IF i > Len(paths)
    THEN [file |-> None, parents |-> parents]
    ELSE IF <<paths[i], th, nm>> \in cursor_files
    THEN [file |-> Some(<<paths[i], th, nm>>), parents |-> parents]
    ELSE PathLoop(th, nm, i + 1,
                  IF parents.some THEN parents ELSE find_parent_themes(paths[i], th))

\* Mutation: every pair counts as new.
pairs_tested_insert_AlwaysNew(tested, pair) ==
    [fresh |-> TRUE, set |-> tested \cup {pair}]

\* Mutation: the set is keyed by the theme alone.
pairs_tested_insert_ByTheme(tested, pair) ==
    [fresh |-> \A q \in tested : q[1] # pair[1], set |-> tested \cup {pair}]

\* pairs_tested.insert(pair): was the pair new, and the set afterwards.
pairs_tested_insert(tested, pair) ==
    [fresh |-> pair \notin tested, set |-> tested \cup {pair}]

\* The theme the loop of open_cursor that is running looks in.
TierTheme == IF tier = "theme" THEN theme.val ELSE "default"

\* open_cursor: the next iteration of a `for name in names` loop calls
\* open_cursor_file.
LoopCall ==
    /\ lstep = "loop"
    /\ name_idx <= Len(names)
    /\ cur' = [theme |-> TierTheme, name |-> names[name_idx]]
    /\ lstep' = "call"
    /\ UNCHANGED <<tier, name_idx, retval, stack, pairs_tested, lresult, examined, nonLocateVars>>

\* open_cursor: the loop over the supplied theme ended without a file; the
\* loop over "default" begins.
LoopDefault ==
    /\ lstep = "loop"
    /\ name_idx > Len(names)
    /\ tier = "theme"
    /\ tier' = "default"
    /\ name_idx' = 1
    /\ UNCHANGED <<lstep, cur, retval, stack, pairs_tested, lresult, examined, nonLocateVars>>

\* open_cursor: both loops ended without a file.
LoopNotFound ==
    /\ lstep = "loop"
    /\ name_idx > Len(names)
    /\ tier = "default"
    /\ lresult' = Err("NotFound")
    /\ lstep' = "done"
    /\ UNCHANGED <<tier, name_idx, cur, retval, stack, pairs_tested, examined, nonLocateVars>>

\* open_cursor_file from its entry up to its return or its parents loop.
Enter ==
    /\ lstep = "call"
    /\ Len(stack) < MaxDepth
    /\ LET ins == pairs_tested_insert(pairs_tested, <<cur.theme, cur.name>>)
           r   == PathLoop(cur.theme, cur.name, 1, None)
       IN  /\ pairs_tested' = ins.set
           /\ examined' =
                 [ visits |-> Append(examined.visits, <<cur.theme, cur.name>>),
                   probes |-> IF ins.fresh /\ paths # <<>>
                              THEN Append(examined.probes, <<cur.theme, cur.name>>)
                              ELSE examined.probes ]
           /\ IF ~ins.fresh \/ paths = <<>>
              THEN retval' = None /\ lstep' = "return" /\ stack' = stack
              ELSE IF r.file.some
              THEN retval' = r.file /\ lstep' = "return" /\ stack' = stack
              ELSE IF r.parents.some
              THEN /\ stack' = Append(stack, [theme |-> cur.theme, name |-> cur.name,
                                               parents |-> r.parents.val, next |-> 1])
                   /\ lstep' = "iter"
                   /\ retval' = retval
              ELSE retval' = None /\ lstep' = "return" /\ stack' = stack
    /\ UNCHANGED <<tier, name_idx, cur, lresult, nonLocateVars>>

Top == stack[Len(stack)]
Pop == SubSeq(stack, 1, Len(stack) - 1)

\* `for parent in parents`: the next parent is searched for the same name.
IterCall ==
    /\ lstep = "iter"
    /\ Top.next <= Len(Top.parents)
    /\ cur' = [theme |-> Top.parents[Top.next], name |-> Top.name]
    /\ stack' = [stack EXCEPT ![Len(stack)].next = @ + 1]
    /\ lstep' = "call"
    /\ UNCHANGED <<tier, name_idx, retval, pairs_tested, lresult, examined, nonLocateVars>>

\* `for parent in parents` ended: open_cursor_file returns None.
IterEnd ==
    /\ lstep = "iter"
    /\ Top.next > Len(Top.parents)
    /\ stack' = Pop
    /\ retval' = None
    /\ lstep' = "return"
    /\ UNCHANGED <<tier, name_idx, cur, pairs_tested, lresult, examined, nonLocateVars>>

\* Mutation: the parents loop returns what its first parent returned.
ReturnToParent_FirstParentOnly ==
    /\ lstep = "return"
    /\ stack # <<>>
    /\ stack' = Pop
    /\ lstep' = "return"
    /\ UNCHANGED <<tier, name_idx, cur, retval, pairs_tested, lresult, examined, nonLocateVars>>

\* A recursive call returned to the parents loop of its caller: a file is
\* returned further, None continues the loop.
ReturnToParent ==
    /\ lstep = "return"
    /\ stack # <<>>
    /\ IF retval.some
       THEN stack' = Pop /\ lstep' = "return"
       ELSE stack' = stack /\ lstep' = "iter"
    /\ UNCHANGED <<tier, name_idx, cur, retval, pairs_tested, lresult, examined, nonLocateVars>>

\* Mutation: the first name that is not found ends the loop.
ReturnToLoop_BreakOnMiss ==
    /\ lstep = "return"
    /\ stack = <<>>
    /\ IF retval.some
       THEN lresult' = Ok(retval.val) /\ lstep' = "done" /\ name_idx' = name_idx
       ELSE lresult' = lresult /\ lstep' = "loop" /\ name_idx' = Len(names) + 1
    /\ UNCHANGED <<tier, cur, retval, stack, pairs_tested, examined, nonLocateVars>>

\* A call returned to a loop of open_cursor: a file ends the search, None
\* moves on to the next name.
ReturnToLoop ==
    /\ lstep = "return"
    /\ stack = <<>>
    /\ IF retval.some
       THEN lresult' = Ok(retval.val) /\ lstep' = "done" /\ name_idx' = name_idx
       ELSE lresult' = lresult /\ lstep' = "loop" /\ name_idx' = name_idx + 1
    /\ UNCHANGED <<tier, cur, retval, stack, pairs_tested, examined, nonLocateVars>>

-----------------------------------------------------------------------------
(* find_cursor_paths                                                       *)
(*                                                                         *)
(* A byte string is a sequence of tokens: ":" and "~" are those bytes, any *)
(* other token stands for a run of bytes that holds neither.               *)

XCURSOR_PATH_DEFAULT ==
    << "~", "/.icons", ":", "/usr/share/icons", ":", "/usr/share/pixmaps", ":",
       "/usr/X11R6/lib/X11/icons" >>

\* <[u8]>::split(s, |b| *b == sep): the pieces between the separators, an
\* empty string giving one empty piece.
RECURSIVE split(_, _)
split(s, sep) ==
    IF \A i \in DOMAIN s : s[i] # sep
    THEN <<s>>
    ELSE LET i == CHOOSE k \in DOMAIN s : s[k] = sep /\ \A j \in 1..(k - 1) : s[j] # sep
         IN  <<SubSeq(s, 1, i - 1)>> \o split(SubSeq(s, i + 1, Len(s)), sep)

\* Mutation: without HOME an entry starting with '~' is kept as it is.
PushPath_KeepTilde(ps, home, path) ==
    IF path # <<>> /\ path[1] = "~" /\ home.some
    THEN Append(ps, home.val \o Tail(path))
    ELSE Append(ps, path)

\* The body of `for path in ...`: an entry starting with '~' is pushed with
\* the '~' replaced by HOME, or left out (with a warning) without HOME;
\* every other entry is pushed as it is.
PushPath(ps, home, path) ==
    IF path # <<>> /\ path[1] = "~"
    THEN IF home.some
         THEN Append(ps, home.val \o Tail(path))
         ELSE ps
    ELSE Append(ps, path)

RECURSIVE PushPaths(_, _, _, _)
PushPaths(ps, home, entries, i) ==
    IF i > Len(entries) THEN ps
    ELSE PushPaths(PushPath(ps, home, entries[i]), home, entries, i + 1)

find_cursor_paths(home, xcursor_path) ==
    LET cursor_paths_ == IF xcursor_path.some THEN xcursor_path.val ELSE XCURSOR_PATH_DEFAULT
    IN  PushPaths(<<>>, home, split(cursor_paths_, ":"), 1)

-----------------------------------------------------------------------------
(* Inputs                                                                  *)

\* Scales 1 and 2 in units of 1/120.
ScaleSeqs == {<<>>, <<120>>, <<240>>, <<120, 240>>, <<240, 120>>}
SizeSeqs  == {<<>>, <<12>>, <<22>>, <<12, 22>>, <<22, 12>>}

\* Sizes declared by the table of contents of generated files.
TocSizes == {16, 24, 32}
\* Kind 0 stands for an entry that is not an image (a comment chunk).
EntryKinds == TocSizes \cup {0}

\* A well-formed file: a 16-byte header, ntoc entries, entry i pointing at
\* chunk i.  `kinds` gives each entry's kind, `zero_delay` its delay pattern.
WellFormedFile(kinds, zero_delay) ==
    [ magic  |-> XCURSOR_MAGIC,
      header |-> HEADER_SIZE,
      ntoc   |-> Len(kinds),
      toc    |-> [i \in DOMAIN kinds |->
                    IF kinds[i] = 0
                    THEN [type |-> XCURSOR_COMMENT_TYPE, size |-> 1, position |-> i]
                    ELSE [type |-> XCURSOR_IMAGE_TYPE, size |-> kinds[i], position |-> i]],
      chunks |-> [i \in DOMAIN kinds |->
                    LET s == kinds[i] IN
                    [ width |-> s, height |-> s, xhot |-> i, yhot |-> 0,
                      delay |-> IF zero_delay THEN 0 ELSE 10 * i,
                      npixels |-> s * s * 4 ]] ]

WellFormedFiles ==
    { WellFormedFile(kinds, z) :
        kinds \in UNION {[1..n -> EntryKinds] : n \in 0..MaxToc},
        z \in BOOLEAN }

IsWellFormed(r) == r \in WellFormedFiles

\* Ways in which a file can be malformed.
DamageKinds ==
    { "magic", "short_header", "long_header", "oversized", "truncated_toc",
      "truncated_chunk", "width", "yhot", "pixels",
      "magic_oversized", "short_header_oversized", "long_header_oversized",
      "count_65536", "huge" }

\* Two defects in one file.
DoubleDamageKinds == {"width_truncated", "width_huge"}

Damage(f, d) ==
    CASE d = "magic"           -> [f EXCEPT !.magic = 0]
      [] d = "short_header"    -> [f EXCEPT !.header = 12]
      [] d = "long_header"     -> [f EXCEPT !.header = 20]
      [] d = "oversized"       -> [f EXCEPT !.ntoc = 65537]
      [] d = "truncated_toc"   -> [f EXCEPT !.ntoc = Len(f.toc) + 1]
         \* the file ends before its last chunk
      [] d = "truncated_chunk" ->
            [f EXCEPT !.chunks = [p \in (DOMAIN f.chunks) \ {Len(f.toc)} |-> f.chunks[p]]]
      [] d = "width"           -> [f EXCEPT !.chunks[1].width = -1]
      [] d = "yhot"            -> [f EXCEPT !.chunks[Len(f.toc)].yhot = -2147483647]
         \* the file ends inside the pixels of its first chunk
      [] d = "pixels"          -> [f EXCEPT !.chunks[1].npixels = 0]
      [] d = "magic_oversized"        -> [f EXCEPT !.magic = 0, !.ntoc = 65537]
      [] d = "short_header_oversized" -> [f EXCEPT !.header = 12, !.ntoc = 65537]
      [] d = "long_header_oversized"  -> [f EXCEPT !.header = 20, !.ntoc = 65537]
         \* the count says 65536 entries, the file ends before them
      [] d = "count_65536"     -> [f EXCEPT !.ntoc = 65536]
         \* 0x7fffffff x 0x7fffffff pixels
      [] d = "huge"            -> [f EXCEPT !.chunks[1].width = 2147483647,
                                            !.chunks[1].height = 2147483647]
         \* two defects: the width of the first chunk, and the file ends
         \* before its last chunk
      [] d = "width_truncated" ->
            [f EXCEPT !.chunks = [p \in (DOMAIN f.chunks) \ {Len(f.toc)} |->
                                    IF p = 1 THEN [f.chunks[p] EXCEPT !.width = -1]
                                    ELSE f.chunks[p]]]
         \* two defects: the width of the first chunk, and 0x7fffffff x
         \* 0x7fffffff pixels in the last chunk
      [] d = "width_huge"      ->
            [f EXCEPT !.chunks[1].width = -1,
                      !.chunks[Len(f.toc)].width = 2147483647,
                      !.chunks[Len(f.toc)].height = 2147483647]

\* Malformed files: every damage applied to the files whose table of contents
\* has the full length and only image entries.
MalformedFiles ==
    { Damage(WellFormedFile(kinds, FALSE), d) :
        kinds \in [1..MaxToc -> TocSizes], d \in DamageKinds }
    \cup
    \* a header of 20 bytes before a table of contents without image entries
    { Damage(WellFormedFile([i \in 1..n |-> 0], FALSE), "long_header") : n \in 0..MaxToc }

Files == WellFormedFiles \cup MalformedFiles

\* Files with two defective chunks.
DoublyDamagedFiles ==
    { Damage(WellFormedFile(kinds, FALSE), d) :
        kinds \in [1..MaxToc -> TocSizes], d \in DoubleDamageKinds }

NoInstance == [kind |-> "none"]

\* The variables of the parts a specification does not drive.
IdleParse == presult = NoResult /\ pscanned = FALSE /\ ptargets = <<>> /\ preads = {}
IdleLoad  == found = FALSE /\ gfx_fails = {} /\ tmpl = NoResult
NoCall == [op |-> "none"]

IdleIndex == index_file = None /\ iparents = NoResult
IdleOther == other = NoInstance
NoArgs    == [id |-> "none", parent |-> None, positioner |-> "none", serial |-> 0]
NoRequest == [op |-> "none", s |-> "none", args |-> NoArgs, ret |-> Ok("done")]
IdleXdg   == xdg = <<>> /\ live = {} /\ xcall = NoRequest
IdleRest  == IdleIndex /\ IdleOther /\ IdleXdg

IdleEnv == env_home = None /\ env_xcursor_path = None /\ cursor_paths = NoResult

IdleFs ==
    /\ IdleEnv
    /\ names = <<>>
    /\ theme = None
    /\ paths = <<>>
    /\ cursor_files = {}
    /\ index_themes = <<>>
IdleLocate ==
    /\ lstep = "idle"
    /\ tier = "default"
    /\ name_idx = 1
    /\ cur = [theme |-> "default", name |-> ""]
    /\ retval = None
    /\ stack = <<>>
    /\ pairs_tested = {}
    /\ examined = [visits |-> <<>>, probes |-> <<>>]
    /\ lresult = NoResult
IdleInst  == inst = NoInstance /\ inst_size = 0 /\ call = NoCall /\ advanced = 0 /\ now = 0

-----------------------------------------------------------------------------
(* The decoder specification: a file and a target list are drawn, then     *)
(* parser_cursor_file is applied.                                          *)

InitParse ==
    /\ file \in Files \cup DoublyDamagedFiles
    /\ scales \in ScaleSeqs
    /\ sizes \in SizeSeqs
    /\ overflow_checks \in BOOLEAN
    /\ IdleParse
    /\ IdleRest
    /\ IdleLoad
    /\ IdleInst
    /\ IdleFs
    /\ IdleLocate

Parse ==
    /\ presult = NoResult
    /\ \E x \in DecodeRuns(file, scales, sizes) :
         /\ presult' = x.result
         /\ pscanned' = x.scanned
         /\ ptargets' = x.targets
         /\ preads' = x.reads
    /\ UNCHANGED <<restVars, inputVars, loadVars, instVars, fsVars, locateVars>>

NextParse == Parse

SpecParse == InitParse /\ [][NextParse]_vars

-----------------------------------------------------------------------------
(* The template specification: the outcome of the theme search, a file, a  *)
(* target list and a GfxContext are drawn; load is applied, and then       *)
(* instantiate.  ServerCursors::load calls load only with scales and sizes *)
(* that are not empty.                                                     *)

\* A size no template of the model is loaded for.
OtherSize == 99

InitLoad ==
    /\ found \in BOOLEAN
    /\ file \in (IF found THEN Files ELSE {WellFormedFile(<<>>, FALSE)})
    /\ scales \in ScaleSeqs \ {<<>>}
    /\ sizes \in SizeSeqs \ {<<>>}
    /\ overflow_checks \in BOOLEAN
    /\ gfx_fails \in SUBSET {"decoded", "empty"}
    /\ tmpl = NoResult
    /\ IdleParse
    /\ IdleRest
    /\ IdleInst
    /\ IdleFs
    /\ IdleLocate

Load ==
    /\ tmpl = NoResult
    /\ tmpl' \in load(file, scales, sizes)
    /\ UNCHANGED <<restVars, inputVars, parseVars, found, gfx_fails, instVars, fsVars, locateVars>>

Instantiate ==
    /\ tmpl.ok
    /\ inst = NoInstance
    /\ \E size \in Range(sizes) \cup {OtherSize} :
         /\ inst' = instantiate(tmpl.val, size, now)
         /\ inst_size' = size
    /\ call' = [op |-> "instantiate", at |-> now, before |-> inst]
    /\ advanced' = 0
    /\ UNCHANGED <<restVars, inputVars, parseVars, loadVars, now, fsVars, locateVars>>

NeedsTick ==
    /\ inst # NoInstance
    /\ call' = [op |-> "needs_tick", at |-> now, before |-> inst, ret |-> needs_tick(inst)]
    /\ UNCHANGED <<restVars, inputVars, parseVars, loadVars, inst, inst_size, advanced, now, fsVars, locateVars>>

NextLoad == Load \/ Instantiate \/ NeedsTick

SpecLoad == InitLoad /\ [][NextLoad]_vars

-----------------------------------------------------------------------------
(* The animation specification: a template is loaded from a file whose     *)
(* images all have one size (one frame per image), a cursor is             *)
(* instantiated from it, and the render loop calls tick and                *)
(* time_until_tick while the clock advances.                               *)

\* The clock stops at this many milliseconds.
MaxClockMs == 70

\* The clock advances by these many milliseconds at a time.
ClockStepsMs == {1, 5}

NS_PER_MS == 1000000

AnimFiles ==
    { WellFormedFile([i \in 1..n |-> 24], z) : n \in 1..MaxToc, z \in BOOLEAN }

InitAnim ==
    /\ found = TRUE
    /\ file \in AnimFiles
    /\ scales = <<120>>
    /\ sizes = <<22>>
    /\ overflow_checks = FALSE
    /\ gfx_fails = {}
    /\ tmpl \in load(file, scales, sizes)
    /\ IdleParse
    /\ IdleRest
    /\ IdleInst
    /\ IdleFs
    /\ IdleLocate

AdvanceClock ==
    /\ \E d \in ClockStepsMs :
         /\ now + d * NS_PER_MS <= MaxClockMs * NS_PER_MS
         /\ now' = now + d * NS_PER_MS
    /\ call' = NoCall
    /\ UNCHANGED <<restVars, inputVars, parseVars, loadVars, inst, inst_size, advanced, fsVars, locateVars>>

Tick ==
    /\ inst # NoInstance
    /\ inst' = tick(inst, now)
    /\ call' = [op |-> "tick", at |-> now, before |-> inst]
    /\ advanced' = IF inst' # inst THEN advanced + 1 ELSE advanced
    /\ UNCHANGED <<restVars, inputVars, parseVars, loadVars, inst_size, now, fsVars, locateVars>>

TimeUntilTick ==
    /\ inst # NoInstance
    /\ call' = [op |-> "time_until_tick", at |-> now, before |-> inst,
                ret |-> time_until_tick(inst, now)]
    /\ UNCHANGED <<restVars, inputVars, parseVars, loadVars, inst, inst_size, advanced, now, fsVars, locateVars>>

\* instantiate is called again on the same template; the cursor made before
\* is replaced by the new one.
Reinstantiate ==
    /\ tmpl.ok
    /\ inst # NoInstance
    /\ \E size \in Range(sizes) :
         /\ inst' = instantiate(tmpl.val, size, now)
         /\ inst_size' = size
    /\ call' = [op |-> "instantiate", at |-> now, before |-> inst]
    /\ advanced' = 0
    /\ UNCHANGED <<restVars, inputVars, parseVars, loadVars, now, fsVars, locateVars>>

NextAnim == Instantiate \/ Reinstantiate \/ AdvanceClock \/ Tick \/ TimeUntilTick

SpecAnim == InitAnim /\ [][NextAnim]_vars

-----------------------------------------------------------------------------
(* The render-loop specification: a cursor is instantiated from a template *)
(* loaded for the scales 1 and 2, and the render loop calls the operations *)
(* of the Cursor trait in any order while the clock advances.              *)

\* The clock of the render loop advances by this many milliseconds.
RenderClockStepMs == 10

\* The renderers of the model: the scales 1, 2 and 3 (no image is loaded for
\* scale 3), and an output of 100 x 100 pixels.
Renderers ==
    { [scale |-> sc, pixel_extents |-> [x1 |-> 0, y1 |-> 0, width |-> 100, height |-> 100]] :
        sc \in {120, 240, 360} }

\* Where the cursor is drawn: on the output, and to the right of it.
RenderXs == {40, 200}

\* A file with one image of size 24 and one of size 32, which the targets of
\* scale 1 and scale 2 select, with hotspots off both axes.
TwoSizeFile ==
    [WellFormedFile(<<24, 32>>, FALSE) EXCEPT !.chunks[1].yhot = 3, !.chunks[2].yhot = 5]

\* The files of the render loop: animations, a file with a different image
\* for each scale, and a file that does not decode (the fallback template).
RenderFiles ==
    AnimFiles \cup {TwoSizeFile, Damage(WellFormedFile(<<24>>, FALSE), "magic")}

InitRender ==
    /\ found = TRUE
    /\ file \in RenderFiles
    /\ scales = <<120, 240>>
    /\ sizes = <<22>>
    /\ overflow_checks = FALSE
    /\ gfx_fails = {}
    /\ tmpl \in load(file, scales, sizes)
    /\ IdleParse
    /\ IdleRest
    /\ IdleInst
    /\ IdleFs
    /\ IdleLocate

RenderClock ==
    /\ now + RenderClockStepMs * NS_PER_MS <= MaxClockMs * NS_PER_MS
    /\ now' = now + RenderClockStepMs * NS_PER_MS
    /\ call' = NoCall
    /\ UNCHANGED <<restVars, inputVars, parseVars, loadVars, inst, inst_size, advanced, fsVars, locateVars>>

\* What a call of render keeps of the call made before it.
PrevCall ==
    IF call.op = "render"
    THEN [op |-> "render", r |-> call.r, x |-> call.x, ret |-> call.ret]
    ELSE IF call.op = "tick"
    THEN [op |-> "tick", before |-> call.before]
    ELSE [op |-> "other"]

Render ==
    /\ inst # NoInstance
    /\ \E r \in Renderers, x \in RenderXs :
         call' = [op |-> "render", at |-> now, before |-> inst, r |-> r, x |-> x,
                  ret |-> render(inst, r, x, 0), prev |-> PrevCall]
    /\ UNCHANGED <<restVars, inputVars, parseVars, loadVars, inst, inst_size, advanced, now, fsVars, locateVars>>

RenderHardwareCursor ==
    /\ inst # NoInstance
    /\ \E r \in Renderers :
         call' = [op |-> "render_hardware_cursor", at |-> now, before |-> inst, r |-> r,
                  ret |-> render_hardware_cursor(inst, r)]
    /\ UNCHANGED <<restVars, inputVars, parseVars, loadVars, inst, inst_size, advanced, now, fsVars, locateVars>>

ExtentsAtScale ==
    /\ inst # NoInstance
    /\ \E r \in Renderers :
         call' = [op |-> "extents_at_scale", at |-> now, before |-> inst, r |-> r,
                  ret |-> extents_at_scale(inst, r.scale)]
    /\ UNCHANGED <<restVars, inputVars, parseVars, loadVars, inst, inst_size, advanced, now, fsVars, locateVars>>

NextRender ==
    \/ Instantiate
    \/ RenderClock
    \/ Tick
    \/ Render
    \/ RenderHardwareCursor
    \/ ExtentsAtScale
    \/ TimeUntilTick
    \/ NeedsTick

SpecRender == InitRender /\ [][NextRender]_vars

-----------------------------------------------------------------------------
(* The frame-clock specification: as the animation specification, with a   *)
(* render loop that calls tick each time the cursor becomes due: the clock *)
(* does not advance while a tick is due, and it does not pass a deadline.  *)

AdvanceClockDue ==
    /\ AdvanceClock
    /\ inst.kind = "Animated" =>
          /\ now - inst.start < inst.next
          /\ now' - inst.start <= inst.next

NextDue == Instantiate \/ AdvanceClockDue \/ Tick

SpecDue == InitAnim /\ [][NextDue]_vars

-----------------------------------------------------------------------------
(* The theme search specification: a file system (cursor files and index   *)
(* files with their Inherits lists), a theme and search paths are drawn,   *)
(* and open_cursor runs on them, one step at a time, to its end.  The      *)
(* program runs the search sequentially to completion, so a step that can  *)
(* be taken is taken (weak fairness).                                      *)

ThemeNames == {"A", "B", "default"}

\* Where cursor files of the model may exist.
Locations ==
    { <<"p1", "A", "n1">>, <<"p1", "A", "n2">>, <<"p2", "A", "n1">>, <<"p2", "A", "n2">>,
      <<"p1", "B", "n1">>, <<"p1", "B", "n2">>,
      <<"p1", "default", "n1">>, <<"p1", "default", "n2">> }

\* Where index.theme files with an Inherits line may exist.
IndexSlots == { <<"p1", "A">>, <<"p2", "A">>, <<"p1", "B">>, <<"p1", "default">> }

\* The Inherits lists of the model: a self reference from A, the edges of a
\* cycle between A and B, a duplicate edge, two parents, and "default".
ParentLists ==
    { <<"A">>, <<"B">>, <<"B", "B">>, <<"B", "default">>, <<"default">> }

\* At most two cursor files, at most two index files.
FileSets  == {S \in SUBSET Locations : Cardinality(S) <= 2}
IndexSets == {S \in SUBSET IndexSlots : Cardinality(S) <= 2}

InitLocate ==
    /\ IdleEnv
    /\ names = <<"n1", "n2">>
    /\ theme \in {None, Some("A")}
    /\ paths \in {<<>>, <<"p1", "p2">>}
    /\ cursor_files \in (IF paths = <<>> THEN {{}} ELSE FileSets)
    /\ \E S \in (IF paths = <<>> THEN {{}} ELSE IndexSets) :
         index_themes \in [S -> ParentLists]
    /\ lstep = "loop"
    /\ tier = IF theme.some THEN "theme" ELSE "default"
    /\ name_idx = 1
    /\ cur = [theme |-> "default", name |-> ""]
    /\ retval = None
    /\ stack = <<>>
    /\ pairs_tested = {}
    /\ examined = [visits |-> <<>>, probes |-> <<>>]
    /\ lresult = NoResult
    /\ file = WellFormedFile(<<>>, FALSE)
    /\ scales = <<>>
    /\ sizes = <<>>
    /\ overflow_checks = FALSE
    /\ IdleParse
    /\ IdleRest
    /\ IdleLoad
    /\ IdleInst

NextLocate ==
    \/ LoopCall
    \/ LoopDefault
    \/ LoopNotFound
    \/ Enter
    \/ IterCall
    \/ IterEnd
    \/ ReturnToParent
    \/ ReturnToLoop

SpecLocate == InitLocate /\ [][NextLocate]_vars /\ WF_vars(NextLocate)

-----------------------------------------------------------------------------
(* The search-path specification: the environment is drawn, and            *)
(* find_cursor_paths is applied.                                           *)

\* The longest value of XCURSOR_PATH, in tokens.
MaxPathLen == 4

PathTokens == {"~", ":", "a", "/b"}

PathValues == UNION {[1..n -> PathTokens] : n \in 0..MaxPathLen}

\* HOME: unset, empty, a directory, and a value that holds ':' and '~'.
HomeValues == {None, Some(<<>>), Some(<<"/home/u">>), Some(<<"/h", ":", "~">>)}

InitPaths ==
    /\ env_home \in HomeValues
    /\ env_xcursor_path \in {None} \cup {Some(v) : v \in PathValues}
    /\ cursor_paths = NoResult
    /\ names = <<>>
    /\ theme = None
    /\ paths = <<>>
    /\ cursor_files = {}
    /\ index_themes = <<>>
    /\ file = WellFormedFile(<<>>, FALSE)
    /\ scales = <<>>
    /\ sizes = <<>>
    /\ overflow_checks = FALSE
    /\ IdleParse
    /\ IdleRest
    /\ IdleLoad
    /\ IdleInst
    /\ IdleLocate

FindCursorPaths ==
    /\ cursor_paths = NoResult
    /\ cursor_paths' = Ok(find_cursor_paths(env_home, env_xcursor_path))
    /\ paths' = cursor_paths'.val
    /\ UNCHANGED <<restVars, inputVars, parseVars, loadVars, instVars, locateVars,
                   names, theme, cursor_files, index_themes, env_home, env_xcursor_path>>

NextPaths == FindCursorPaths

SpecPaths == InitPaths /\ [][NextPaths]_vars

-----------------------------------------------------------------------------
(* Properties of find_cursor_paths                                         *)

\* The search-path value: the variable, or the built-in default.
PathValue == IF env_xcursor_path.some THEN env_xcursor_path.val ELSE XCURSOR_PATH_DEFAULT

Separators == {i \in DOMAIN PathValue : PathValue[i] = ":"}

NumEntries == Cardinality(Separators) + 1

\* The position of the k-th ':', with the ends of the value as the 0-th and
\* the last one.
SeparatorAt(k) ==
    IF k = 0 THEN 0
    ELSE IF k = NumEntries THEN Len(PathValue) + 1
    ELSE CHOOSE i \in Separators : Cardinality({j \in Separators : j < i}) = k - 1

\* The ':'-separated entries of the value, in their order.
PathEntries ==
    [k \in 1..NumEntries |-> SubSeq(PathValue, SeparatorAt(k - 1) + 1, SeparatorAt(k) - 1)]

StartsWithTilde(e) == e # <<>> /\ e[1] = "~"

NotTilde(e) == ~StartsWithTilde(e)

\* C26: find_cursor_paths returns the ':'-separated entries of the
\* search-path value (the built-in default when the variable is unset) in
\* their original order; an entry starting with '~' has that one character
\* replaced by the HOME value, and when HOME is unset exactly the '~'
\* entries are dropped while all other entries are kept, in order, without
\* any error.
C26_SearchPaths ==
    cursor_paths # NoResult =>
        /\ cursor_paths.ok
        /\ env_home.some =>
             cursor_paths.val =
                [k \in 1..NumEntries |->
                    IF StartsWithTilde(PathEntries[k])
                    THEN env_home.val \o Tail(PathEntries[k])
                    ELSE PathEntries[k]]
        /\ ~env_home.some => cursor_paths.val = SelectSeq(PathEntries, NotTilde)

\* HOME is unset and the value has a '~' entry between two other entries,
\* which are returned in their order.
C26_Witness ==
    /\ cursor_paths # NoResult
    /\ env_home = None
    /\ env_xcursor_path = Some(<<"a", ":", "~", ":">>)
    /\ cursor_paths = Ok(<< <<"a">>, <<>> >>)

\* XCURSOR_PATH is unset and HOME is /home/u: the default list with
\* ~/.icons expanded.
C26_WitnessDefault ==
    /\ cursor_paths # NoResult
    /\ env_xcursor_path = None
    /\ env_home = Some(<<"/home/u">>)
    /\ cursor_paths = Ok(<< <<"/home/u", "/.icons">>, <<"/usr/share/icons">>,
                            <<"/usr/share/pixmaps">>, <<"/usr/X11R6/lib/X11/icons">> >>)

-----------------------------------------------------------------------------
(* Properties of the theme search                                          *)

\* The parents any index.theme of theme th names, under any search path.
ParentsOf(th) ==
    UNION {Range(index_themes[s]) : s \in {x \in DOMAIN index_themes : x[2] = th}}

\* The themes reachable from the themes S along Inherits edges.
RECURSIVE ReachableFrom(_)
ReachableFrom(S) ==
    LET N == S \cup UNION {ParentsOf(th) : th \in S}
    IN  IF N = S THEN S ELSE ReachableFrom(N)

StartThemes == (IF theme.some THEN {theme.val} ELSE {}) \cup {"default"}

\* No theme reachable from the supplied theme or from "default" holds a file
\* for a candidate name under a search path.
NoFileReachable ==
    \A f \in cursor_files :
        ~(f[1] \in Range(paths) /\ f[2] \in ReachableFrom(StartThemes) /\ f[3] \in Range(names))

\* C4: the theme search ends for every Inherits graph (cycles, self
\* inheritance and duplicate edges included), and when no theme reachable
\* from the supplied theme or from "default" holds a file for a candidate
\* name it ends with NotFound.
C4_SearchTerminates ==
    /\ <>(lstep = "done")
    /\ [](lstep = "done" /\ NoFileReachable => lresult = Err("NotFound"))

\* A search over the cycle A -> B -> A that has ended with NotFound after
\* visiting both themes for both names.
C4_Witness ==
    /\ lstep = "done"
    /\ lresult = Err("NotFound")
    /\ theme = Some("A")
    /\ <<"p1", "A">> \in DOMAIN index_themes
    /\ <<"p1", "B">> \in DOMAIN index_themes
    /\ index_themes[<<"p1", "A">>] = <<"B">>
    /\ index_themes[<<"p1", "B">>] = <<"A">>
    /\ {<<"A", "n1">>, <<"B", "n1">>, <<"A", "n2">>, <<"B", "n2">>} \subseteq pairs_tested

\* The search has ended.
Located == lstep = "done"

\* Indices of the search paths under which theme th holds a file for nm.
PathsWithFile(th, nm) == {i \in DOMAIN paths : <<paths[i], th, nm>> \in cursor_files}

HasFile(th, nm) == PathsWithFile(th, nm) # {}

MinOf(S) == CHOOSE m \in S : \A x \in S : m <= x

\* The file of theme th for nm under the earliest search path that has one.
FirstPathFile(th, nm) == <<paths[MinOf(PathsWithFile(th, nm))], th, nm>>

\* Indices of the search paths under which theme th has an index.theme with
\* an Inherits line.
PathsWithIndex(th) == {i \in DOMAIN paths : <<paths[i], th>> \in DOMAIN index_themes}

\* The parents the index.theme under the earliest such search path names.
FirstIndexParents(th) ==
    IF PathsWithIndex(th) = {} THEN {}
    ELSE Range(index_themes[<<paths[MinOf(PathsWithIndex(th))], th>>])

\* The themes reachable from the themes S along the Inherits lines of each
\* theme's first index.theme.
RECURSIVE ChainFrom(_)
ChainFrom(S) ==
    LET N == S \cup UNION {FirstIndexParents(th) : th \in S}
    IN  IF N = S THEN S ELSE ChainFrom(N)

\* Indices of the candidate names some theme of S holds a file for.
NamesFoundIn(S) == {i \in DOMAIN names : \E th \in S : HasFile(th, names[i])}

\* Indices of the candidate names the supplied theme holds directly.
DirectNames == NamesFoundIn({theme.val})

\* C22 as stated: with a supplied theme, the first candidate name (in list
\* order) that exists directly in the theme is returned from the theme's
\* own directory; parents are consulted only if no candidate name exists
\* directly in the theme.
C22_DirectNamesFirst ==
    (Located /\ theme.some /\ DirectNames # {}) =>
        lresult = Ok(FirstPathFile(theme.val, names[MinOf(DirectNames)]))

\* C22, amended: with a supplied theme, locate takes the candidate names in
\* list order and searches, for each name in turn, the theme's own cursors
\* directory under every search path and then, only if the name is not
\* there, the themes of its Inherits chain for the same name; the first
\* existing file is returned.  The name returned is the first candidate
\* name that the theme or a theme of its chain holds; it comes from the
\* theme's own directory whenever the theme holds that name directly.
C22_NameByNameThroughChain ==
    (Located /\ theme.some) =>
        LET chain == ChainFrom({theme.val})
            found_names == NamesFoundIn(chain)
        IN  found_names # {} =>
              LET nm == names[MinOf(found_names)] IN
              /\ lresult.ok
              /\ lresult.val[3] = nm
              /\ lresult.val[2] \in chain
              /\ HasFile(theme.val, nm) => lresult.val = FirstPathFile(theme.val, nm)

\* The first name exists only in parent B of the supplied theme A and the
\* second name directly in A: the file of B for the first name is returned.
C22_Witness ==
    /\ Located
    /\ theme = Some("A")
    /\ ~HasFile("A", "n1")
    /\ HasFile("A", "n2")
    /\ lresult = Ok(<<"p1", "B", "n1">>)

C23_WitnessNoTheme ==
    /\ Located
    /\ theme = None
    /\ lresult.ok
    /\ lresult.val[2] = "default"

\* C24: for a given theme and candidate name, when the cursor file exists
\* under several search paths, the file under the earliest-listed search
\* path is the one returned.
C24_EarliestPathWins ==
    (Located /\ lresult.ok) =>
        lresult.val = FirstPathFile(lresult.val[2], lresult.val[3])

\* The file exists under both search paths and the one under the first path
\* is returned.
C24_Witness ==
    /\ Located
    /\ lresult.ok
    /\ Cardinality(PathsWithFile(lresult.val[2], lresult.val[3])) = 2
    /\ lresult.val[1] = paths[1]

\* The themes the search can reach along the first index.theme of each theme.
SearchedThemes == ChainFrom(StartThemes)

\* C25 as stated: the parents declared by the index.theme of every search
\* path are searched, so a candidate file in any theme reachable along any
\* index file is found.
C25_EveryIndexSearched ==
    (Located /\ ~NoFileReachable) => lresult.ok

\* C25, amended: when a theme has an index.theme with an Inherits line under
\* more than one search path, only the parents declared by the index file
\* of the earliest such search path are searched: the search finds a file
\* exactly when a theme reachable along those first index files holds one
\* for a candidate name, and a cursor file that exists only in a parent
\* named by the index.theme of a later search path is not found.
C25_FirstIndexOnly ==
    Located =>
        /\ lresult.ok <=> NamesFoundIn(SearchedThemes) # {}
        /\ lresult.ok =>
             /\ lresult.val \in cursor_files
             /\ lresult.val[2] \in SearchedThemes
        /\ ~lresult.ok => lresult = Err("NotFound")

\* Theme A has an index.theme under both search paths; only the second one
\* names B, B holds the only cursor file, and the search ended with NotFound.
C25_Witness ==
    /\ Located
    /\ lresult = Err("NotFound")
    /\ theme = Some("A")
    /\ PathsWithIndex("A") = {1, 2}
    /\ "B" \in Range(index_themes[<<paths[2], "A">>])
    /\ "B" \notin SearchedThemes
    /\ HasFile("B", "n1")

\* How often the pair occurs in a log of pairs.
Count(log, pair) == Cardinality({i \in DOMAIN log : log[i] = pair})

\* The pairs open_cursor_file was called for more than once.
Revisited == {q \in Range(examined.visits) : Count(examined.visits, q) > 1}

\* No pair was probed twice; a revisited pair held no file; and a search
\* that ended with NotFound left no file for a candidate name in a theme it
\* can reach.
ExaminedOnce ==
    /\ \A q \in Range(examined.probes) : Count(examined.probes, q) = 1
    /\ Range(examined.probes) \subseteq pairs_tested
    /\ Range(examined.visits) = pairs_tested
    /\ \A q \in Revisited : ~HasFile(q[1], q[2])
    /\ (Located /\ ~lresult.ok) => NamesFoundIn(SearchedThemes) = {}

\* A call of open_cursor_file for a pair that was visited before returns
\* None at once, without probing a path or reading an index file.
RevisitReturnsNone ==
    (lstep = "call" /\ <<cur.theme, cur.name>> \in pairs_tested /\ lstep' # "call") =>
        /\ lstep' = "return"
        /\ retval' = None
        /\ stack' = stack
        /\ examined'.probes = examined.probes

\* C30: during one locate operation every (theme, candidate-name) pair is
\* examined at most once: a second visit of a pair (through a cycle, through
\* two parents sharing an ancestor, or through the final "default" pass
\* after "default" was reached by inheritance) returns not-found at once
\* without probing any path, and skipping a visited pair never hides a file
\* that exists.
C30_PairsExaminedOnce ==
    /\ []ExaminedOnce
    /\ [][RevisitReturnsNone]_vars

\* Theme A inherits "default": the final pass over "default" visited the
\* pair ("default", n1) a second time and did not probe it again.
C30_Witness ==
    /\ Located
    /\ theme = Some("A")
    /\ tier = "default"
    /\ Count(examined.visits, <<"default", "n1">>) = 2
    /\ Count(examined.probes, <<"default", "n1">>) = 1

\* A cycle: A inherits B and B inherits A; (A, n1) was visited twice.
C30_WitnessCycle ==
    /\ Located
    /\ theme = Some("A")
    /\ FirstIndexParents("A") = {"B"}
    /\ FirstIndexParents("B") = {"A"}
    /\ Count(examined.visits, <<"A", "n1">>) = 2
    /\ Count(examined.probes, <<"A", "n1">>) = 1

\* A shared ancestor: A inherits B and "default", B inherits "default";
\* ("default", n1) was visited twice while the supplied theme was searched.
C30_WitnessSharedAncestor ==
    /\ theme = Some("A")
    /\ tier = "theme"
    /\ FirstIndexParents("A") = {"B", "default"}
    /\ FirstIndexParents("B") = {"default"}
    /\ Count(examined.visits, <<"default", "n1">>) = 2
    /\ Count(examined.probes, <<"default", "n1">>) = 1

-----------------------------------------------------------------------------
(* Properties of the decoder                                               *)

Parsed == presult # NoResult

\* Indices of the image-type entries of a table of contents.
ImageIdx(toc) == {i \in DOMAIN toc : toc[i].type = XCURSOR_IMAGE_TYPE}

Distance(size, eff) == Abs(size - eff)

\* The positions, in file order, of the image entries declaring `size`.
PositionsOfSize(toc, size) ==
    LET hit == SelectSeq(toc, LAMBDA e : e.type = XCURSOR_IMAGE_TYPE /\ e.size = size)
    IN  [i \in DOMAIN hit |-> hit[i].position]

\* The first image entry whose distance to `eff` is minimal.
FirstClosest(toc, eff) ==
    CHOOSE i \in ImageIdx(toc) :
        /\ \A j \in ImageIdx(toc) :
              Distance(toc[i].size, eff) <= Distance(toc[j].size, eff)
        /\ \A j \in ImageIdx(toc) :
              Distance(toc[j].size, eff) = Distance(toc[i].size, eff) => i <= j

\* C5: after the scan of the table of contents, every target's best-fit size
\* is a declared image size that minimizes |declared size - effective_size|
\* over all image entries, and the target's candidate positions are exactly
\* the positions of the image entries of that size, in file order.
C5_BestFitMinimal ==
    (pscanned /\ ImageIdx(file.toc) # {}) =>
        /\ Len(ptargets) = Len(scales) * Len(sizes)
        /\ \A k \in DOMAIN ptargets :
             LET t == ptargets[k] IN
             /\ \E i \in ImageIdx(file.toc) : file.toc[i].size = t.best_fit_size
             /\ \A i \in ImageIdx(file.toc) :
                  Distance(t.best_fit_size, t.effective_size)
                      <= Distance(file.toc[i].size, t.effective_size)
             /\ t.positions = PositionsOfSize(file.toc, t.best_fit_size)

\* Sizes {16, 24, 32} were scanned for a target of effective size 22, and
\* 24 was selected.
C5_Witness ==
    /\ Parsed
    /\ {file.toc[i].size : i \in ImageIdx(file.toc)} = {16, 24, 32}
    /\ \E k \in DOMAIN ptargets :
         /\ ptargets[k].effective_size = 22
         /\ ptargets[k].best_fit_size = 24
         /\ ptargets[k].positions # <<>>

\* Two image entries of different sizes are both at the minimal distance
\* from `eff`.
TiedSizes(toc, eff) ==
    \E i, j \in ImageIdx(toc) :
        /\ toc[i].size # toc[j].size
        /\ Distance(toc[i].size, eff) = Distance(toc[j].size, eff)
        /\ \A m \in ImageIdx(toc) :
              Distance(toc[i].size, eff) <= Distance(toc[m].size, eff)

\* C6: when two different declared sizes are at the same minimal distance
\* from a target's effective size, the size appearing first in the table of
\* contents is the selected one, and no position of an entry of the other
\* size is among the target's candidates.
C6_TieKeepsFirst ==
    pscanned =>
        \A k \in DOMAIN ptargets :
            LET t == ptargets[k] IN
            TiedSizes(file.toc, t.effective_size) =>
                /\ t.best_fit_size = file.toc[FirstClosest(file.toc, t.effective_size)].size
                /\ \A j \in ImageIdx(file.toc) :
                     file.toc[j].size # t.best_fit_size =>
                         \A n \in DOMAIN t.positions : t.positions[n] # file.toc[j].position

\* Effective size 24 with 32 declared before 16 (no 24): 32 was selected.
C6_Witness ==
    /\ Parsed
    /\ \E k \in DOMAIN ptargets :
         /\ ptargets[k].effective_size = 24
         /\ TiedSizes(file.toc, 24)
         /\ ptargets[k].best_fit_size = 32
         /\ \E i, j \in ImageIdx(file.toc) :
              i < j /\ file.toc[i].size = 32 /\ file.toc[j].size = 16

\* The requested (scale, size) pairs.
RequestedKeys == {<<sc, sz>> : sc \in Range(scales), sz \in Range(sizes)}

\* The declared size of the table-of-contents entry an image was read for.
TocSizeOf(toc, image) ==
    {toc[i].size : i \in {j \in ImageIdx(toc) : toc[j].position = image.pixels}}

\* C7: for a well-formed file with at least one image chunk and a non-empty
\* target list, decoding succeeds and every frame holds exactly one image for
\* every requested (scale, size), read from a chunk whose declared size is
\* the target's best-fit size.
C7_OneImagePerTarget ==
    (Parsed /\ IsWellFormed(file) /\ ImageIdx(file.toc) # {} /\ RequestedKeys # {}) =>
        /\ presult.ok
        /\ Len(presult.val) >= 1
        /\ \A i \in DOMAIN presult.val :
             /\ DOMAIN presult.val[i] = RequestedKeys
             /\ \A key \in RequestedKeys :
                  TocSizeOf(file.toc, presult.val[i][key]) =
                      {file.toc[FirstClosest(file.toc, effective_size(key[1], key[2]))].size}

\* A decode for four targets that selected different sizes for them.
C7_Witness ==
    /\ Parsed
    /\ presult.ok
    /\ Cardinality(RequestedKeys) = 4
    /\ \E a, b \in RequestedKeys :
         presult.val[1][a].width # presult.val[1][b].width

\* The targets recorded different numbers of candidate positions.
CountsDiffer ==
    \E a, b \in DOMAIN ptargets : Len(ptargets[a].positions) # Len(ptargets[b].positions)

\* C8: if the targets recorded different numbers of candidate positions,
\* decoding succeeds with exactly one frame, which holds for each target the
\* image at that target's first recorded candidate position.
C8_CollapseToOneFrame ==
    (Parsed /\ IsWellFormed(file) /\ CountsDiffer) =>
        /\ presult.ok
        /\ Len(presult.val) = 1
        /\ \A k \in DOMAIN ptargets :
             LET t == ptargets[k] IN
             /\ <<t.scale, t.size>> \in DOMAIN presult.val[1]
             /\ presult.val[1][<<t.scale, t.size>>].pixels = t.positions[1]

\* The first target recorded one position and a later target two.
C8_Witness ==
    /\ Parsed
    /\ presult.ok
    /\ Len(ptargets) >= 2
    /\ Len(ptargets[1].positions) = 1
    /\ \E k \in DOMAIN ptargets : Len(ptargets[k].positions) = 2

\* The first target recorded more positions than a later one.
C8_WitnessFirstHasMore ==
    /\ Parsed
    /\ presult.ok
    /\ Len(ptargets) >= 2
    /\ Len(ptargets[1].positions) = 2
    /\ \E k \in DOMAIN ptargets : Len(ptargets[k].positions) = 1

\* The error kinds of the decoder.
DecoderErrorKinds ==
    { "Io", "NotAnXcursorFile", "OversizedXcursorFile", "EmptyXcursorFile",
      "CorruptXcursorFile" }

\* C18: for every input (wrong magic, truncated data, header_size above 16,
\* positions beyond the end of the file, out-of-range dimensions) the decoder
\* returns a FrameSet or one of the CursorError kinds; it never panics.
C18_DecoderNeverPanics ==
    Parsed => (presult.ok \/ presult.err \in DecoderErrorKinds)

\* C19: decoding fails with NotAnXcursorFile when the magic is wrong or
\* header_size is below 16, whatever the entry count is; it fails with
\* OversizedXcursorFile when toc_count is above 65536; a toc_count of exactly
\* 65536 is not rejected as oversized.
C19_HeaderChecks ==
    Parsed =>
        /\ (file.magic # XCURSOR_MAGIC \/ file.header < HEADER_SIZE) =>
             presult = Err("NotAnXcursorFile")
        /\ (file.magic = XCURSOR_MAGIC /\ file.header >= HEADER_SIZE /\ file.ntoc > 65536) =>
             presult = Err("OversizedXcursorFile")
        /\ file.ntoc = 65536 => presult # Err("OversizedXcursorFile")

\* The header passes the checks of the decoder, and the file holds the whole
\* table of contents its header announces.
ValidHeader(r) ==
    /\ r.magic = XCURSOR_MAGIC
    /\ r.header >= HEADER_SIZE
    /\ r.ntoc <= 65536
    /\ r.ntoc = Len(r.toc)

\* C20: entries of the table of contents that are not of the image type are
\* skipped and are no candidate of any target; a file with a valid header
\* and no image entry, or a decode for an empty target list, fails with
\* EmptyXcursorFile without reading an image chunk.
C20_OnlyImageEntries ==
    Parsed =>
        /\ \A k \in DOMAIN ptargets :
             \A n \in DOMAIN ptargets[k].positions :
                 \E i \in ImageIdx(file.toc) : file.toc[i].position = ptargets[k].positions[n]
        /\ (ValidHeader(file) /\ (ImageIdx(file.toc) = {} \/ RequestedKeys = {})) =>
             /\ presult = Err("EmptyXcursorFile")
             /\ preads = {}

\* Every target recorded n candidate positions.
AllTargetsRecorded(n) ==
    /\ ptargets # <<>>
    /\ \A k \in DOMAIN ptargets : Len(ptargets[k].positions) = n

\* The image read from the chunk at `position` of the file.
ImageOfChunk(r, position) ==
    LET c == r.chunks[position] IN
    [ width |-> c.width, height |-> c.height, xhot |-> c.xhot, yhot |-> c.yhot,
      delay |-> c.delay, pixels |-> position ]

\* C28: when every target recorded the same number n of candidate
\* positions, the decoded FrameSet has exactly n frames, and frame i of a
\* target is the image of the i-th table-of-contents entry, in file order,
\* whose declared size equals that target's best-fit size.
C28_FramesInFileOrder ==
    \A n \in 1..MaxToc + 1 :
        (Parsed /\ AllTargetsRecorded(n)) =>
            /\ IsWellFormed(file) => presult.ok
            /\ presult.ok =>
                 /\ Len(presult.val) = n
                 /\ \A i \in 1..n : \A key \in RequestedKeys :
                      LET best == file.toc[FirstClosest(file.toc,
                                                        effective_size(key[1], key[2]))].size
                          entries == PositionsOfSize(file.toc, best)
                      IN  /\ Len(entries) = n
                          /\ presult.val[i][key] = ImageOfChunk(file, entries[i])

\* Two targets recorded two positions each, the first and the third entry
\* of the table of contents, and the second frame is the third chunk.
C28_Witness ==
    /\ Parsed
    /\ presult.ok
    /\ Len(ptargets) >= 2
    /\ AllTargetsRecorded(2)
    /\ Len(presult.val) = 2
    /\ \A key \in RequestedKeys :
         presult.val[1][key].pixels = 1 /\ presult.val[2][key].pixels = 3

\* Two targets recorded one position each, of different sizes.
C28_WitnessTwoSizes ==
    /\ Parsed
    /\ presult.ok
    /\ AllTargetsRecorded(1)
    /\ \E a, b \in RequestedKeys : presult.val[1][a].width # presult.val[1][b].width

\* The same table of contents and chunks behind a header of 16 bytes.
WithPlainHeader(r) == [r EXCEPT !.header = HEADER_SIZE]

\* C29: a file whose header_size field is greater than 16 is accepted as an
\* Xcursor file, and its table of contents is read starting at byte offset
\* header_size, giving the same result as the same table of contents and
\* chunks behind a 16-byte header.
C29_LongHeaderSkipped ==
    (Parsed /\ file.magic = XCURSOR_MAGIC /\ file.header > HEADER_SIZE) =>
        /\ presult # Err("NotAnXcursorFile")
        /\ presult \in parser_cursor_file(WithPlainHeader(file), scales, sizes)

\* The candidate positions whose chunk declares a width, height, xhot or
\* yhot above i32::MAX.
OutOfRangeCandidates ==
    { p \in CandidatePositions(ptargets) \cap DOMAIN file.chunks :
        LET c == file.chunks[p] IN c.width < 0 \/ c.height < 0 \/ c.xhot < 0 \/ c.yhot < 0 }

\* The candidate positions whose chunk cannot be read for another reason:
\* the file ends before or inside the chunk, or the pixel buffer cannot be
\* allocated.
OtherwiseUnreadable ==
    { p \in CandidatePositions(ptargets) \ OutOfRangeCandidates :
        \/ p \notin DOMAIN file.chunks
        \/ WideLess(Wide(file.chunks[p].npixels),
                    num_bytes(file.chunks[p].width, file.chunks[p].height)) }

\* The file with sound dimensions in every chunk that is no candidate.
RepairNonCandidates(r) ==
    [r EXCEPT !.chunks =
        [p \in DOMAIN r.chunks |->
            IF p \in CandidatePositions(ptargets)
            THEN r.chunks[p]
            ELSE [r.chunks[p] EXCEPT !.width = 1, !.height = 1, !.xhot = 0, !.yhot = 0,
                                     !.npixels = 4]]]

\* C21 as stated: an out-of-range dimension in any candidate chunk makes
\* decoding fail with CorruptXcursorFile.
C21_OutOfRangeIsCorrupt ==
    (Parsed /\ pscanned /\ OutOfRangeCandidates # {}) =>
        presult = Err("CorruptXcursorFile")

\* C21, amended: if width, height, xhot or yhot of a candidate chunk is
\* above 2^31-1, decoding fails and returns no frames; the error is
\* CorruptXcursorFile unless another candidate chunk cannot be read, and
\* then it is CorruptXcursorFile or the failure of reading that chunk.  An
\* out-of-range chunk that is no candidate of any target changes nothing:
\* the result is a result of the file with that chunk repaired.
C21_OutOfRangeCandidateFails ==
    (Parsed /\ pscanned) =>
        /\ OutOfRangeCandidates # {} =>
             /\ ~presult.ok
             /\ presult \in {Err("CorruptXcursorFile")}
                                \cup {ReadImage(file, p) : p \in OtherwiseUnreadable}
        /\ presult \in parser_cursor_file(RepairNonCandidates(file), scales, sizes)

\* A decode that failed with CorruptXcursorFile on a candidate chunk whose
\* yhot is out of range and whose width is not.
C21_Witness ==
    /\ Parsed
    /\ presult = Err("CorruptXcursorFile")
    /\ \E p \in OutOfRangeCandidates :
         file.chunks[p].yhot < 0 /\ file.chunks[p].width >= 0

\* A decode that succeeded on a file whose first chunk has an out-of-range
\* width and is no candidate of any target.
C21_WitnessNotCandidate ==
    /\ Parsed
    /\ presult.ok
    /\ 1 \in DOMAIN file.chunks
    /\ file.chunks[1].width < 0
    /\ 1 \notin CandidatePositions(ptargets)

-----------------------------------------------------------------------------
(* Properties of load and instantiate                                      *)

Loaded == tmpl # NoResult

\* The per-frame images of an instance.
InstImages(c) == IF c.kind = "Static" THEN <<c.image>> ELSE c.images

\* C1: a template returned by load holds, in every frame, an image for every
\* (scale, size) of the requested cross product, and it has at least one
\* frame; an instance made from it for a requested size has, in every frame,
\* an image at every requested scale.
C1_TemplateCoversTargets ==
    (Loaded /\ tmpl.ok) =>
        /\ Len(tmpl.val.images) >= 1
        /\ \A i \in DOMAIN tmpl.val.images :
             RequestedKeys \subseteq DOMAIN tmpl.val.images[i].sizes
        /\ (inst # NoInstance /\ inst_size \in Range(sizes)) =>
             /\ Len(InstImages(inst)) = Len(tmpl.val.images)
             /\ \A i \in DOMAIN InstImages(inst) :
                  Range(scales) \subseteq DOMAIN InstImages(inst)[i].scales

\* An instance of a decoded two-frame template for four targets.
C1_Witness ==
    /\ Loaded
    /\ tmpl.ok
    /\ tmpl.val.var = "Animated"
    /\ Cardinality(RequestedKeys) = 4
    /\ inst # NoInstance
    /\ inst_size \in Range(sizes)
    /\ Len(inst.images) = 2

\* The error kinds of locating and decoding a cursor file.
OpenErrorKinds ==
    { "NotFound", "Io", "NotAnXcursorFile", "OversizedXcursorFile",
      "EmptyXcursorFile", "CorruptXcursorFile" }

\* Locating or decoding the cursor file fails with an error.
OpenFails ==
    \A cs \in open_cursor(file, scales, sizes) : ~cs.ok /\ cs.err \in OpenErrorKinds

\* The synthetic template: Static, a 1x1 image with hotspot (0, 0) of the
\* synthetic pixel data for exactly the requested (scale, size) pairs.
IsFallbackTemplate(t) ==
    /\ t.var = "Static"
    /\ Len(t.images) = 1
    /\ DOMAIN t.images[1].sizes = RequestedKeys
    /\ \A k \in RequestedKeys :
         /\ t.images[1].sizes[k].extents = [x1 |-> 0, y1 |-> 0, width |-> 1, height |-> 1]
         /\ t.images[1].sizes[k].tex = EMPTY_PIXELS

\* C2: when locating or decoding the cursor file fails with an error, load
\* does not return that error; it returns the synthetic Static template (a
\* 1x1 image with hotspot (0, 0) for every requested (scale, size)).  The
\* one other outcome is the import error of the synthetic image itself.
C2_OpenErrorBecomesFallback ==
    (Loaded /\ OpenFails) =>
        /\ tmpl \notin open_cursor(file, scales, sizes)
        /\ tmpl.ok <=> "empty" \notin gfx_fails
        /\ tmpl.ok => IsFallbackTemplate(tmpl.val)
        /\ ~tmpl.ok => tmpl.err = "ImportError"

\* Decoding failed with CorruptXcursorFile and load returned the synthetic
\* template.
C2_Witness ==
    /\ Loaded
    /\ Err("CorruptXcursorFile") \in open_cursor(file, scales, sizes)
    /\ tmpl.ok
    /\ IsFallbackTemplate(tmpl.val)

\* C3: load returns an error only when the import of the synthetic fallback
\* image fails; when the import of a decoded image fails, load returns the
\* synthetic template instead of the error.
C3_OnlyFallbackImportFails ==
    (Loaded /\ ~(~tmpl.ok /\ tmpl.err = "panic")) =>
        /\ ~tmpl.ok => "empty" \in gfx_fails
        /\ ("empty" \notin gfx_fails) => tmpl.ok
        /\ (gfx_fails = {"decoded"} /\ \E cs \in open_cursor(file, scales, sizes) : cs.ok) =>
             (tmpl.ok /\ IsFallbackTemplate(tmpl.val))

\* The FrameSet the decoder returned, when load was given one.
Decoded == {cs \in open_cursor(file, scales, sizes) : cs.ok}

\* C14: a decoded FrameSet with exactly one frame yields a Static template,
\* one with two or more frames an Animated template with the same number of
\* frames in the same order; needs_tick() is true for the instances of an
\* Animated template and false for those of a Static one, the fallback
\* included.
C14_VariantByFrameCount ==
    (Loaded /\ tmpl.ok) =>
        /\ \A cs \in Decoded :
             /\ Len(cs.val) = 1 => tmpl.val.var = "Static"
             /\ Len(cs.val) >= 2 =>
                  /\ tmpl.val.var = "Animated"
                  /\ Len(tmpl.val.images) = Len(cs.val)
                  /\ \A i \in DOMAIN cs.val :
                       /\ DOMAIN tmpl.val.images[i].sizes = DOMAIN cs.val[i]
                       /\ \A k \in DOMAIN cs.val[i] :
                            tmpl.val.images[i].sizes[k].tex = cs.val[i][k].pixels
        /\ Decoded = {} => tmpl.val.var = "Static"
        /\ inst # NoInstance =>
             /\ inst.kind = tmpl.val.var
             /\ needs_tick(inst) = (tmpl.val.var = "Animated")
        /\ call.op = "needs_tick" => call.ret = (tmpl.val.var = "Animated")

\* needs_tick returned true for an instance of a three-frame template.
C14_Witness ==
    /\ Loaded
    /\ tmpl.ok
    /\ \E cs \in Decoded : Len(cs.val) = 3
    /\ Len(tmpl.val.images) = 3
    /\ call.op = "needs_tick"
    /\ call.ret = TRUE

\* C15: instantiate(size) yields an instance whose image map of every frame
\* holds a scale s exactly when the template holds an image for (s, size),
\* mapped to that image; a size the template was not loaded for yields an
\* instance without images.
C15_InstantiateProjects ==
    (Loaded /\ tmpl.ok /\ inst # NoInstance) =>
        /\ Len(InstImages(inst)) = Len(tmpl.val.images)
        /\ \A i \in DOMAIN tmpl.val.images :
             LET from == tmpl.val.images[i].sizes
                 to   == InstImages(inst)[i].scales
             IN  /\ DOMAIN to = {k[1] : k \in {j \in DOMAIN from : j[2] = inst_size}}
                 /\ \A sc \in DOMAIN to : to[sc] = from[<<sc, inst_size>>]
                 /\ inst_size \notin Range(sizes) => DOMAIN to = {}

\* An instance for size 12 of a template loaded for the sizes 12 and 22,
\* whose images for the two sizes differ.
C15_Witness ==
    /\ Loaded
    /\ tmpl.ok
    /\ inst # NoInstance
    /\ inst_size = 12
    /\ Range(sizes) = {12, 22}
    /\ \E sc \in Range(scales) :
         /\ sc \in DOMAIN InstImages(inst)[1].scales
         /\ tmpl.val.images[1].sizes[<<sc, 12>>] # tmpl.val.images[1].sizes[<<sc, 22>>]

-----------------------------------------------------------------------------
(* Properties of the animation                                             *)

\* Nanoseconds from the epoch of cursor c to time t_now.
Elapsed(c, t_now) == t_now - c.start

\* C9: tick() on an Animated instance leaves the frame index and the
\* deadline unchanged while the elapsed time is below the deadline;
\* otherwise the index becomes (index + 1) mod frame_count, one step however
\* far overdue the deadline is, and the deadline grows by the delay of the
\* newly selected frame.  Nothing else of the instance changes.
C9_TickStep ==
    (call.op = "tick" /\ call.before.kind = "Animated") =>
        LET b == call.before IN
        IF Elapsed(b, call.at) < b.next
        THEN inst = b
        ELSE /\ inst.idx = (b.idx + 1) % Len(b.images)
             /\ inst.next = b.next + b.images[inst.idx + 1].delay_ns
             /\ inst = [b EXCEPT !.idx = inst.idx, !.next = inst.next]

\* A tick that was overdue by more than the whole next frame advanced by one
\* frame, from the last frame back to frame 0, and left the cursor overdue.
C9_Witness ==
    /\ call.op = "tick"
    /\ call.before.kind = "Animated"
    /\ Len(inst.images) = 3
    /\ call.before.idx = 2
    /\ inst.idx = 0
    /\ Elapsed(call.before, call.at) >= call.before.next + inst.images[1].delay_ns
    /\ Elapsed(inst, call.at) >= inst.next

\* C10: time_until_tick() of an Animated instance is never negative, equals
\* deadline - elapsed while elapsed < deadline, and is 0 exactly when a
\* tick() at the same clock value advances the frame index.
C10_TimeUntilTick ==
    (call.op = "time_until_tick" /\ call.before.kind = "Animated") =>
        LET b == call.before IN
        /\ inst = b
        /\ call.ret >= 0
        /\ Elapsed(b, call.at) < b.next => call.ret = b.next - Elapsed(b, call.at)
        /\ call.ret = 0 <=> tick(b, call.at).idx # b.idx

\* time_until_tick returned 0 for a cursor whose deadline had passed.
C10_Witness ==
    /\ call.op = "time_until_tick"
    /\ call.before.kind = "Animated"
    /\ call.ret = 0
    /\ Elapsed(call.before, call.at) > call.before.next

\* The sum of the delays of the first k frames of cursor c.
RECURSIVE SumDelays(_, _)
SumDelays(c, k) ==
    IF k = 0 THEN 0 ELSE SumDelays(c, k - 1) + c.images[k].delay_ns

\* The cursor is not due: every tick that was due has been made.
Ticked(c, t_now) == Elapsed(c, t_now) < c.next

\* C11: when tick() is called each time the cursor becomes due, frame k is
\* the current frame while the elapsed time (within one cycle of the
\* animation) lies in [d0 + ... + d(k-1), d0 + ... + dk); when the elapsed
\* time equals the sum of all delays the index is 0 again.
C11_FrameSchedule ==
    (inst.kind = "Animated" /\ Ticked(inst, now)) =>
        LET n == Len(inst.images)
            e == Elapsed(inst, now) % SumDelays(inst, n)
        IN  \A k \in 0..(n - 1) :
                (SumDelays(inst, k) <= e /\ e < SumDelays(inst, k + 1)) => inst.idx = k

\* Three frames with delays 10/20/30 ms: the third due tick, made 60 ms
\* after the epoch, brought the index back to 0.
C11_Witness ==
    /\ inst.kind = "Animated"
    /\ call.op = "tick"
    /\ Len(inst.images) = 3
    /\ inst.images[1].delay_ns = 10 * NS_PER_MS
    /\ inst.images[2].delay_ns = 20 * NS_PER_MS
    /\ inst.images[3].delay_ns = 30 * NS_PER_MS
    /\ Elapsed(inst, now) = 60 * NS_PER_MS
    /\ call.before.idx = 2
    /\ inst.idx = 0
    /\ advanced = 3

\* delay[0] + the sum over i in 1..j of delay[i mod n], for the frames of c.
RECURSIVE DeadlineAfter(_, _)
DeadlineAfter(c, j) ==
    IF j = 0
    THEN c.images[1].delay_ns
    ELSE DeadlineAfter(c, j - 1) + c.images[(j % Len(c.images)) + 1].delay_ns

\* C12: after any sequence of tick() calls at non-decreasing clock values of
\* which j advanced the frame, the index is j mod n and the deadline is
\* delay[0] + the sum over i in 1..j of delay[i mod n]: a function of j alone,
\* not of the times of the calls; no tick() decreases the deadline.
C12_DeadlineAccumulates ==
    inst.kind = "Animated" =>
        /\ inst.idx = advanced % Len(inst.images)
        /\ inst.next = DeadlineAfter(inst, advanced)
        /\ call.op = "tick" => inst.next >= call.before.next

\* A tick made later than its deadline advanced the cursor for the fifth
\* time, past the end of a three-frame animation.
C12_Witness ==
    /\ inst.kind = "Animated"
    /\ call.op = "tick"
    /\ Len(inst.images) = 3
    /\ advanced = 5
    /\ inst # call.before
    /\ Elapsed(call.before, call.at) > call.before.next
    /\ inst.next = DeadlineAfter(inst, 5)

\* Declared delays over the whole range of a u32: 0, 1, 30, i32::MAX,
\* i32::MAX + 1 and u32::MAX.
DeclaredDelays ==
    { Wide(0), Wide(1), Wide(30), Wide(2147483647), <<648, 483, 147, 2>>, U32_MAX }

\* The delay computed from any of these declared delays is within u64 and
\* at least 1,000,000 ns.
DeclaredDelaysFit ==
    \A d \in DeclaredDelays :
        /\ ~delay_ns_u64(d).overflow
        /\ ~WideLess(delay_ns_u64(d).val, Wide(NS_PER_MS))

\* With the clock held at t_now, at most n further calls of tick make the
\* next call a no-op.
RECURSIVE CatchesUp(_, _, _)
CatchesUp(c, t_now, n) ==
    \/ Ticked(c, t_now)
    \/ n > 0 /\ CatchesUp(tick(c, t_now), t_now, n - 1)

C16_FreshInstance ==
    (call.op = "instantiate" /\ tmpl.val.var = "Animated") =>
        /\ inst.kind = "Animated"
        /\ inst.idx = 0
        /\ inst.next = tmpl.val.images[1].delay_ns
        /\ inst.start = call.at
        /\ Len(inst.images) = Len(tmpl.val.images)
        /\ \A i \in DOMAIN inst.images :
             inst.images[i].delay_ns = tmpl.val.images[i].delay_ns

\* A second instance was created 10 ms or more after the first one, which
\* had advanced to its last frame.
C16_Witness ==
    /\ call.op = "instantiate"
    /\ tmpl.val.var = "Animated"
    /\ call.before.kind = "Animated"
    /\ call.before.idx = 2
    /\ call.before.next > tmpl.val.images[1].delay_ns
    /\ call.at >= call.before.start + 10 * NS_PER_MS
    /\ inst.idx = 0
    /\ inst.start = call.at

\* The operations of a cursor that only read it.
ReadingOps ==
    {"render", "render_hardware_cursor", "extents_at_scale", "time_until_tick", "needs_tick"}

\* C17: render, render_hardware_cursor, extents_at_scale, time_until_tick
\* and needs_tick leave the frame index and the deadline of the instance
\* unchanged; a render() repeated without a tick() in between draws the same
\* frame; a render() that follows an advancing tick() draws the frame at the
\* advanced index.
C17_RenderLeavesFrame ==
    /\ call.op \in ReadingOps => inst = call.before
    /\ (call.op \in {"render", "render_hardware_cursor"}
           /\ call.ret.some /\ inst.kind = "Animated") =>
         call.ret.val.tex = inst.images[inst.idx + 1].scales[call.r.scale].tex
    /\ (call.op = "render" /\ call.prev.op = "render"
           /\ call.prev.r = call.r /\ call.prev.x = call.x) =>
         call.ret = call.prev.ret
    /\ (call.op = "render" /\ call.prev.op = "tick"
           /\ inst.kind = "Animated" /\ call.prev.before # inst) =>
         LET idx == (call.prev.before.idx + 1) % Len(inst.images)
         IN  /\ inst.idx = idx
             /\ call.ret = render_img(inst.images[idx + 1], call.r, call.x, 0)
             /\ call.ret.some <=>
                  (call.r.scale \in DOMAIN inst.images[idx + 1].scales /\ call.x = 40)

\* A render that followed an advancing tick drew the second frame, whose
\* texture is not the one of the first frame.
C17_Witness ==
    /\ call.op = "render"
    /\ call.prev.op = "tick"
    /\ inst.kind = "Animated"
    /\ call.prev.before.idx = 0
    /\ inst.idx = 1
    /\ call.ret.some
    /\ call.ret.val.tex = inst.images[2].scales[240].tex
    /\ call.ret.val.tex # inst.images[1].scales[240].tex

\* The rectangle of a decoded image: origin (-xhot, -yhot), size width x
\* height.
HotspotRect(img) ==
    [x1 |-> -img.xhot, y1 |-> -img.yhot, width |-> img.width, height |-> img.height]

\* The template was built from decoded frames (it is not the fallback).
FromDecoded == tmpl.ok /\ tmpl.val.xcursor # <<>>

\* C27: extents_at_scale(scale) returns, for the current frame, the rectangle
\* with origin (-xhot, -yhot) and size width x height of the image held for
\* that scale, and the empty rectangle at (0, 0) when the current frame has
\* no image for that scale; for an instance of the fallback template (for a
\* loaded size) it returns the 1x1 rectangle at (0, 0) for every loaded
\* scale.
C27_ExtentsAtScale ==
    call.op = "extents_at_scale" =>
        LET sc    == call.r.scale
            frame == IF inst.kind = "Animated" THEN inst.idx + 1 ELSE 1
            held  == sc \in Range(scales) /\ inst_size \in Range(sizes)
        IN  /\ (FromDecoded /\ held) =>
                 call.ret = HotspotRect(tmpl.val.xcursor[frame][<<sc, inst_size>>])
            /\ (~FromDecoded /\ held) =>
                 call.ret = [x1 |-> 0, y1 |-> 0, width |-> 1, height |-> 1]
            /\ ~held => call.ret = [x1 |-> 0, y1 |-> 0, width |-> 0, height |-> 0]

\* extents_at_scale on the second frame of an animation: the rectangle of
\* the second image of the file, whose hotspot differs from the first.
C27_Witness ==
    /\ call.op = "extents_at_scale"
    /\ inst.kind = "Animated"
    /\ inst.idx = 1
    /\ call.ret = [x1 |-> -2, y1 |-> 0, width |-> 24, height |-> 24]

\* extents_at_scale of a static cursor at scale 2: the image of size 32.
C27_WitnessTwoSizes ==
    /\ call.op = "extents_at_scale"
    /\ file = TwoSizeFile
    /\ call.r.scale = 240
    /\ call.ret = [x1 |-> -2, y1 |-> -5, width |-> 32, height |-> 32]

\* extents_at_scale of an instance of the fallback template.
C27_WitnessFallback ==
    /\ call.op = "extents_at_scale"
    /\ ~FromDecoded
    /\ call.r.scale = 240
    /\ call.ret = [x1 |-> 0, y1 |-> 0, width |-> 1, height |-> 1]

\* extents_at_scale for a scale no image was loaded for.
C27_WitnessNoImage ==
    /\ call.op = "extents_at_scale"
    /\ FromDecoded
    /\ inst_size \in Range(sizes)
    /\ call.r.scale = 360
    /\ call.ret = [x1 |-> 0, y1 |-> 0, width |-> 0, height |-> 0]

-----------------------------------------------------------------------------
(* find_parent_themes, byte by byte.  An index.theme is a sequence of      *)
(* bytes; the eight bytes of the word Inherits are written as one token,   *)
(* every other token is one byte.                                          *)

SP  == " "
TAB == "\t"
LF  == "\n"

\* buf_reader.read_until(b'\n', &mut buf): the bytes up to and including the
\* next '\n', or up to the end of the file.
RECURSIVE read_until(_)
read_until(s) ==
    IF s = <<>> THEN <<>>
    ELSE IF Head(s) = LF THEN <<LF>>
    ELSE <<Head(s)>> \o read_until(Tail(s))

\* buf.strip_prefix(b"Inherits")
strip_prefix(buf) ==
    IF buf # <<>> /\ Head(buf) = "Inherits" THEN Some(Tail(buf)) ELSE None

\* while suffix.first() == Some(&b' ') { suffix = &suffix[1..]; }
RECURSIVE SkipSpaces_AndTabs(_)
SkipSpaces_AndTabs(suffix) ==
    IF suffix # <<>> /\ Head(suffix) \in {SP, TAB}
    THEN SkipSpaces_AndTabs(Tail(suffix)) ELSE suffix

RECURSIVE SkipSpaces(_)
SkipSpaces(suffix) ==
    IF suffix # <<>> /\ Head(suffix) = SP THEN SkipSpaces(Tail(suffix)) ELSE suffix

\* The closure given to split.
IsSplitByte(b) == b \in {SP, TAB, LF, ";", ","}

\* suffix.split(..).filter(|v| v.is_not_empty()).collect(): piece is the
\* piece that is being read.
RECURSIVE SplitParents(_, _)
SplitParents(suffix, piece) ==
    LET done == IF piece = <<>> THEN <<>> ELSE <<piece>> IN
    IF suffix = <<>> THEN done
    ELSE IF IsSplitByte(Head(suffix)) THEN done \o SplitParents(Tail(suffix), <<>>)
    ELSE SplitParents(Tail(suffix), Append(piece, Head(suffix)))

\* The loop of find_parent_themes over the bytes that are still unread.
RECURSIVE ScanLines(_)
ScanLines(unread) ==
    LET buf    == read_until(unread)
        rest   == SubSeq(unread, Len(buf) + 1, Len(unread))
        prefix == strip_prefix(buf)
        suffix == SkipSpaces(prefix.val)
    IN  IF Len(buf) = 0 THEN None
        ELSE IF ~prefix.some THEN ScanLines(rest)
        ELSE IF suffix = <<>> \/ Head(suffix) # "=" THEN ScanLines(rest)
        ELSE Some(SplitParents(Tail(suffix), <<>>))

\* find_parent_themes on a file with the given bytes (None: File::open fails).
ParentThemesOf(content) ==
    IF ~content.some THEN None ELSE ScanLines(content.val)

-----------------------------------------------------------------------------
(* The index-file specification: the bytes of an index.theme are drawn and *)
(* find_parent_themes is applied.                                          *)

\* The longest list after the start of a line, in bytes.
MaxRest == 3

\* How a line starts.
LineHeads ==
    { <<>>, <<"Inherits">>, <<"Inherits", "=">>, <<"Inherits", SP, "=">>,
      <<"Inherits", SP, SP, "=">>, <<"Inherits", TAB, "=">>,
      <<"Inherits", SP, TAB, "=">>, <<"Inherits", "a", "=">>,
      <<SP, "Inherits", "=">>, <<"#">> }

RestBytes == {"a", SP, TAB, ";", ",", "="}

FirstLines ==
    { h \o r : h \in LineHeads, r \in UNION {[1..n -> RestBytes] : n \in 0..MaxRest} }

\* What follows the first line: nothing, or a line that names the theme b.
LaterLines == {<<>>} \cup { <<LF>> \o h \o <<"b">> : h \in LineHeads }

IndexFiles ==
    {None, Some(<<>>)}
        \cup { Some(l \o m \o e) : l \in FirstLines, m \in LaterLines, e \in {<<>>, <<LF>>} }

InitIndex ==
    /\ index_file \in IndexFiles
    /\ iparents = NoResult
    /\ IdleOther
    /\ IdleXdg
    /\ file = WellFormedFile(<<>>, FALSE)
    /\ scales = <<>>
    /\ sizes = <<>>
    /\ overflow_checks = FALSE
    /\ IdleParse
    /\ IdleLoad
    /\ IdleInst
    /\ IdleFs
    /\ IdleLocate

FindParentThemes ==
    /\ iparents = NoResult
    /\ iparents' = Ok(ParentThemesOf(index_file))
    /\ UNCHANGED <<index_file, other, xdgVars, inputVars, parseVars, loadVars, instVars, fsVars, locateVars>>

NextIndex == FindParentThemes

SpecIndex == InitIndex /\ [][NextIndex]_vars

-----------------------------------------------------------------------------
(* Properties of find_parent_themes                                        *)

\* The lines of the file without their '\n', by the places of the '\n'.
LineStarts(c) == {i \in 1..Len(c) : i = 1 \/ c[i - 1] = LF}
LineEnd(c, i) ==
    IF \E j \in i..Len(c) : c[j] = LF
    THEN (CHOOSE j \in i..Len(c) : c[j] = LF /\ \A k \in i..(j - 1) : c[k] # LF) - 1
    ELSE Len(c)
LineAt(c, i) == SubSeq(c, i, LineEnd(c, i))

\* The place of the '=' of a line that begins with Inherits, any number of
\* bytes of blank and '=', or 0.
EqualsAt(line, blank) ==
    IF /\ line # <<>>
       /\ line[1] = "Inherits"
       /\ \E j \in 2..Len(line) : line[j] = "=" /\ \A k \in 2..(j - 1) : line[k] \in blank
    THEN CHOOSE j \in 2..Len(line) : line[j] = "=" /\ \A k \in 2..(j - 1) : line[k] \in blank
    ELSE 0

\* The pieces of s between the bytes of seps that are not empty, in order.
PieceStarts(s, seps) ==
    {i \in 1..Len(s) : s[i] \notin seps /\ (i = 1 \/ s[i - 1] \in seps)}
PieceFrom(s, seps, i) ==
    SubSeq(s, i, CHOOSE j \in i..Len(s) :
                    /\ \A k \in i..j : s[k] \notin seps
                    /\ (j = Len(s) \/ s[j + 1] \in seps))
RECURSIVE InOrder(_, _, _)
InOrder(s, seps, starts) ==
    IF starts = {} THEN <<>>
    ELSE LET i == CHOOSE x \in starts : \A y \in starts : x <= y
         IN  <<PieceFrom(s, seps, i)>> \o InOrder(s, seps, starts \ {i})
Pieces(s, seps) == InOrder(s, seps, PieceStarts(s, seps))

\* What the file declares when blank are the bytes allowed before the '=':
\* the list of the first Inherits line, or None without such a line.
Declared(content, blank) ==
    IF ~content.some THEN None
    ELSE LET c     == content.val
             lines == {i \in LineStarts(c) : EqualsAt(LineAt(c, i), blank) # 0}
         IN  IF lines = {} THEN None
             ELSE LET i    == CHOOSE x \in lines : \A y \in lines : x <= y
                      line == LineAt(c, i)
                  IN  Some(Pieces(SubSeq(line, EqualsAt(line, blank) + 1, Len(line)),
                                  {SP, TAB, ";", ","}))

\* C31 as stated: the first line that begins with Inherits, optional
\* whitespace (spaces or tabs) and '=' is the one whose list is returned.
C31_WhitespaceBeforeEquals ==
    iparents.ok => iparents.val = Declared(index_file, {SP, TAB})

\* C31, amended: find_parent_themes returns the list of the first line that
\* begins with Inherits, any number of spaces (no tabs) and '='; the rest of
\* that line is split on spaces, tabs, semicolons and commas, empty pieces
\* dropped; later Inherits lines are ignored; a line that begins with
\* Inherits without spaces and '=' after it is skipped and the scan goes on;
\* without such a line, or without the file, the result is None.
C31_SpacesBeforeEquals ==
    iparents.ok => iparents.val = Declared(index_file, {SP})

\* An Inherits line with a tab before the '=' was skipped, and the list of
\* the later Inherits line was returned.
C31_Witness ==
    /\ iparents.ok
    /\ index_file.some
    /\ Len(index_file.val) >= 3
    /\ SubSeq(index_file.val, 1, 3) = <<"Inherits", TAB, "=">>
    /\ iparents.val = Some(<< <<"b">> >>)

\* The first of two Inherits lines gave two names; the second line was
\* ignored.
C31_WitnessFirstLine ==
    /\ iparents.ok
    /\ index_file = Some(<<"Inherits", SP, SP, "=", "a", TAB, "a", LF, "Inherits", "=", "b">>)
    /\ iparents.val = Some(<< <<"a">>, <<"a">> >>)

-----------------------------------------------------------------------------
(* Properties of the frame index                                           *)

\* The operations that index the current frame of an animated cursor.
IndexingOps == {"render", "render_hardware_cursor", "extents_at_scale", "tick"}

\* C32: every Animated template has at least two frames, and the frame
\* index of an animated cursor is always smaller than its number of frames,
\* which is the template's: images[idx] exists in render,
\* render_hardware_cursor, extents_at_scale and tick, and the modulus of
\* tick is not zero.
C32_FrameIndexInRange ==
    /\ (tmpl.ok /\ tmpl.val.var = "Animated") => Len(tmpl.val.images) >= 2
    /\ (inst # NoInstance /\ inst.kind = "Animated") =>
          /\ tmpl.val.var = "Animated"
          /\ Len(inst.images) = Len(tmpl.val.images)
          /\ inst.idx \in 0..(Len(inst.images) - 1)
    /\ (call.op \in IndexingOps /\ call.before.kind = "Animated") =>
          call.before.idx \in 0..(Len(call.before.images) - 1)

\* A tick has just taken an animated cursor from its last frame back to
\* frame 0.
C32_Witness ==
    /\ call.op = "tick"
    /\ inst.kind = "Animated"
    /\ call.before.idx = Len(inst.images) - 1
    /\ inst.idx = 0
    /\ advanced >= Len(inst.images)

\* render has drawn the last frame of a cursor of three frames.
C32_WitnessRender ==
    /\ call.op = "render"
    /\ inst.kind = "Animated"
    /\ Len(inst.images) = 3
    /\ inst.idx = 2

-----------------------------------------------------------------------------
(* The two-cursor specification: a template is loaded for the scales 1 and *)
(* 2, two cursors are instantiated from it at any two times, and tick is   *)
(* called on either of them while the clock of the render loop advances.   *)

\* Two frames for each of the scales: the images of size 24 and those of
\* size 32 of one frame declare different delays.
TwoSizeAnimFile == WellFormedFile(<<24, 32, 24, 32>>, FALSE)

TwoFiles == {WellFormedFile(<<24, 24>>, FALSE), WellFormedFile(<<24, 24, 24>>, TRUE),
             TwoSizeAnimFile}

InitTwo ==
    /\ found = TRUE
    /\ file \in TwoFiles
    /\ scales = <<120, 240>>
    /\ sizes = <<22>>
    /\ overflow_checks = FALSE
    /\ gfx_fails = {}
    /\ tmpl \in load(file, scales, sizes)
    /\ IdleParse
    /\ IdleRest
    /\ IdleInst
    /\ IdleFs
    /\ IdleLocate

InstantiateOther ==
    /\ tmpl.ok
    /\ other = NoInstance
    /\ \E size \in Range(sizes) : other' = instantiate(tmpl.val, size, now)
    /\ call' = [op |-> "instantiate_other", at |-> now, before |-> other]
    /\ UNCHANGED <<indexVars, xdgVars, inputVars, parseVars, loadVars, inst, inst_size, advanced, now, fsVars, locateVars>>

TickOther ==
    /\ other # NoInstance
    /\ other' = tick(other, now)
    /\ call' = [op |-> "tick_other", at |-> now, before |-> other]
    /\ UNCHANGED <<indexVars, xdgVars, inputVars, parseVars, loadVars, inst, inst_size, advanced, now, fsVars, locateVars>>

NextTwo == Instantiate \/ InstantiateOther \/ RenderClock \/ Tick \/ TickOther

SpecTwo == InitTwo /\ [][NextTwo]_vars

-----------------------------------------------------------------------------
(* Properties of the delays of a template and of two cursors               *)

\* The delays of the frames of a template.
DelaysOf(t) == [i \in DOMAIN t.images |-> t.images[i].delay_ns]

\* C33: the delays of the frames of an Animated template are determined by
\* the file and the targets: every load of the same file for the same
\* targets gives the delays of the template that was loaded.
C33_DelaysDetermined ==
    (tmpl.ok /\ inst = NoInstance /\ other = NoInstance /\ now = 0) =>
        \A t \in load(file, scales, sizes) :
            (t.ok /\ t.val.var = "Animated" /\ tmpl.val.var = "Animated")
                => DelaysOf(t.val) = DelaysOf(tmpl.val)

\* c and d differ at most in the frame index and the deadline.
SameButFrame(c, d) ==
    IF c.kind = "Animated" /\ d.kind = "Animated"
    THEN [c EXCEPT !.idx = d.idx, !.next = d.next] = d
    ELSE c = d

\* C34: tick on one cursor changes at most that cursor's frame index and
\* deadline; the template it was made from and the other cursor made from
\* the same template, with its index and deadline, stay as they are.
C34_TickIsLocal ==
    [][ /\ call'.op = "tick" =>
             /\ SameButFrame(inst', inst)
             /\ other' = other
             /\ tmpl' = tmpl
        /\ call'.op = "tick_other" =>
             /\ SameButFrame(other', other)
             /\ inst' = inst
             /\ tmpl' = tmpl ]_vars

\* Two animated cursors made at the same time from one template; tick has
\* just advanced the first one, and they show different frames.
C34_Witness ==
    /\ call.op = "tick"
    /\ inst.kind = "Animated"
    /\ other.kind = "Animated"
    /\ inst.start = other.start
    /\ call.before.idx = 0
    /\ inst.idx = 1
    /\ other.idx = 0
    /\ other.next < inst.next

-----------------------------------------------------------------------------
(* xdg_surface (src/src/ifs/wl_surface/xdg_surface.rs): the role of an     *)
(* XdgSurface, its role object, the popups registered on it, and the       *)
(* serials of its configure events.                                        *)

\* XdgSurface::new followed by install: no role, no role object, no popups,
\* requested_serial 1, nothing acknowledged; the surface is the ext of its
\* wl_surface and is registered with its xdg_wm_base and its client.  sent
\* records the serials of the Configure events sent to the client.
XdgSurface_new ==
    [ role             |-> "None",
      ext              |-> None,
      popups           |-> {},
      requested_serial |-> 1,
      acked_serial     |-> None,
      sent             |-> <<>>,
      surface_ext      |-> TRUE,
      in_base          |-> TRUE,
      in_client        |-> TRUE ]

\* What a request handler leaves: the surfaces, the role objects, its result.
Handled(X, L, r) == [xdg |-> X, live |-> L, ret |-> r]

\* XdgSurface::set_role: the role after the call, or IncompatibleRole.
set_role(old, new) ==
    IF old = "None" \/ old = new THEN Ok(new) ELSE Err("IncompatibleRole")

\* client.add_client_obj(&obj): fails for an id that names an object.
add_client_obj_ok(L, id) == \A o \in L : o[1] # id

\* Mutation: a new toplevel replaces the one that is attached.
get_toplevel_Replace(X, L, s, id) ==
    LET role == set_role(X[s].role, "XdgToplevel")
        X1   == [X EXCEPT ![s].role = role.val]
    IN  IF ~role.ok THEN Handled(X, L, role)
        ELSE IF ~add_client_obj_ok(L, id) THEN Handled(X1, L, Err("ClientError"))
        ELSE Handled([X1 EXCEPT ![s].ext = Some([kind |-> "XdgToplevel", id |-> id, parent |-> None])],
                     L \cup {<<id, s>>}, Ok("done"))

\* The handler of xdg_surface.get_toplevel(id) on the surface s.
get_toplevel(X, L, s, id) ==
    LET role == set_role(X[s].role, "XdgToplevel")
        X1   == [X EXCEPT ![s].role = role.val]
    IN  IF ~role.ok THEN Handled(X, L, role)
        ELSE IF X1[s].ext.some THEN Handled(X1, L, Err("AlreadyConstructed"))
        ELSE IF ~add_client_obj_ok(L, id) THEN Handled(X1, L, Err("ClientError"))
        ELSE Handled([X1 EXCEPT ![s].ext = Some([kind |-> "XdgToplevel", id |-> id, parent |-> None])],
                     L \cup {<<id, s>>}, Ok("done"))

\* client.lookup(req.parent): the parent is an xdg_surface of the client.
lookup_ok(X, parent) == parent \in DOMAIN X /\ X[parent].in_client

\* The handler of xdg_surface.get_popup(id, parent, positioner) on s.  parent
\* is None or Some(id of an xdg_surface); positioner is "ok", "unknown" (no
\* such object) or "rejected" (XdgPopup::new fails on it).
get_popup(X, L, s, id, parent, positioner) ==
    LET role == set_role(X[s].role, "XdgPopup")
        X1   == [X EXCEPT ![s].role = role.val]
        X2   == IF parent.some THEN [X1 EXCEPT ![parent.val].popups = @ \cup {id}] ELSE X1
    IN  IF ~role.ok THEN Handled(X, L, role)
        ELSE IF parent.some /\ ~lookup_ok(X1, parent.val) THEN Handled(X1, L, Err("ClientError"))
        ELSE IF positioner = "unknown" THEN Handled(X1, L, Err("ClientError"))
        ELSE IF X1[s].ext.some THEN Handled(X1, L, Err("AlreadyConstructed"))
        ELSE IF positioner = "rejected" THEN Handled(X1, L, Err("XdgPopupError"))
        ELSE IF ~add_client_obj_ok(L, id) THEN Handled(X1, L, Err("ClientError"))
        ELSE Handled([X2 EXCEPT ![s].ext = Some([kind |-> "XdgPopup", id |-> id, parent |-> parent])],
                     L \cup {<<id, s>>}, Ok("done"))

\* Mutation: the wl_surface is detached before the checks.
destroy_DetachFirst(X, L, s) ==
    LET X1 == [X EXCEPT ![s].surface_ext = FALSE] IN
    IF X[s].ext.some THEN Handled(X1, L, Err("RoleNotYetDestroyed"))
    ELSE IF X[s].popups # {} THEN Handled(X1, L, Err("PopupsNotYetDestroyed"))
    ELSE Handled([X EXCEPT ![s].surface_ext = FALSE, ![s].in_base = FALSE, ![s].in_client = FALSE],
                 L, Ok("done"))

\* The handler of xdg_surface.destroy on s.
destroy(X, L, s) ==
    IF X[s].ext.some THEN Handled(X, L, Err("RoleNotYetDestroyed"))
    ELSE IF X[s].popups # {} THEN Handled(X, L, Err("PopupsNotYetDestroyed"))
    ELSE Handled([X EXCEPT ![s].surface_ext = FALSE, ![s].in_base = FALSE, ![s].in_client = FALSE],
                 L, Ok("done"))

\* XdgSurface::do_send_configure: fetch_add(1) + 1 is sent.
do_send_configure(x) ==
    LET serial == x.requested_serial + 1 IN
    [x EXCEPT !.requested_serial = serial, !.sent = Append(@, serial)]

\* The handler of xdg_surface.ack_configure(serial).
ack_configure(x, serial) ==
    IF x.requested_serial = serial THEN [x EXCEPT !.acked_serial = Some(serial)] ELSE x

\* The destroy request of the role object of s (xdg_toplevel, xdg_popup): the
\* popup is removed from its parent (Popup::remove_popup), the role object
\* from the surface and from the client.
destroy_role_object(X, L, s) ==
    LET o  == X[s].ext.val
        X1 == IF o.parent.some THEN [X EXCEPT ![o.parent.val].popups = @ \ {o.id}] ELSE X
    IN  Handled([X1 EXCEPT ![s].ext = None], L \ {<<o.id, s>>}, Ok("done"))

-----------------------------------------------------------------------------
(* The xdg_surface specification: a client has two xdg_surfaces and sends  *)
(* get_toplevel, get_popup and destroy requests to them and to their role  *)
(* objects in any order.                                                   *)

XdgSurfaceIds == {"s1", "s2"}

\* The ids the client gives to role objects.
RoleObjectIds == {"o1", "o2"}

\* The parents a get_popup request names: none, an xdg_surface, and an id
\* that names no object.
PopupParents == {None} \cup {Some(p) : p \in XdgSurfaceIds \cup {"s9"}}

Positioners == {"ok", "unknown", "rejected"}

\* No surface sends more configure events than this.
MaxConfigures == 2

InitXdg ==
    /\ xdg = [s \in XdgSurfaceIds |-> XdgSurface_new]
    /\ live = {}
    /\ xcall = NoRequest
    /\ IdleIndex
    /\ IdleOther
    /\ file = WellFormedFile(<<>>, FALSE)
    /\ scales = <<>>
    /\ sizes = <<>>
    /\ overflow_checks = FALSE
    /\ IdleParse
    /\ IdleLoad
    /\ IdleInst
    /\ IdleFs
    /\ IdleLocate

\* The variables no xdg_surface request touches.
nonXdgVars == <<indexVars, other, inputVars, parseVars, loadVars, instVars, fsVars, locateVars>>

\* A request reaches the handler of s while s is an object of the client.
Request(s, op, args, h) ==
    /\ xdg[s].in_client
    /\ xdg' = h.xdg
    /\ live' = h.live
    /\ xcall' = [op |-> op, s |-> s, args |-> args, ret |-> h.ret]
    /\ UNCHANGED nonXdgVars

GetToplevel ==
    \E s \in XdgSurfaceIds, id \in RoleObjectIds :
        Request(s, "get_toplevel", [NoArgs EXCEPT !.id = id], get_toplevel(xdg, live, s, id))

GetPopup ==
    \E s \in XdgSurfaceIds, id \in RoleObjectIds, parent \in PopupParents, p \in Positioners :
        Request(s, "get_popup", [NoArgs EXCEPT !.id = id, !.parent = parent, !.positioner = p],
                get_popup(xdg, live, s, id, parent, p))

Destroy ==
    \E s \in XdgSurfaceIds : Request(s, "destroy", NoArgs, destroy(xdg, live, s))

DestroyRoleObject ==
    \E s \in XdgSurfaceIds :
        /\ xdg[s].ext.some
        /\ Request(s, "destroy_role_object", NoArgs, destroy_role_object(xdg, live, s))

AckConfigure ==
    \E s \in XdgSurfaceIds, serial \in 0..(MaxConfigures + 2) :
        Request(s, "ack_configure", [NoArgs EXCEPT !.serial = serial],
                Handled([xdg EXCEPT ![s] = ack_configure(@, serial)], live, Ok("done")))

\* do_send_configure is called for a surface with a role object: by
\* before_apply_commit on the first commit, and by the role object.
DoSendConfigure ==
    \E s \in XdgSurfaceIds :
        /\ xdg[s].ext.some
        /\ Len(xdg[s].sent) < MaxConfigures
        /\ Request(s, "do_send_configure", NoArgs,
                   Handled([xdg EXCEPT ![s] = do_send_configure(@)], live, Ok("done")))

NextXdg ==
    \/ GetToplevel
    \/ GetPopup
    \/ Destroy
    \/ DestroyRoleObject

SpecXdg == InitXdg /\ [][NextXdg]_vars

\* The configure specification: the surfaces get toplevels, the compositor
\* sends configure events and the client acknowledges any serials.
NextConfigure ==
    \/ GetToplevel
    \/ DestroyRoleObject
    \/ DoSendConfigure
    \/ AckConfigure

SpecConfigure == InitXdg /\ [][NextConfigure]_vars

-----------------------------------------------------------------------------
(* Properties of the role of an xdg_surface                                *)

RoleRequests == {"get_toplevel", "get_popup"}

\* The role a request asks for.
RequestedRole(op) == IF op = "get_toplevel" THEN "XdgToplevel" ELSE "XdgPopup"

\* The role objects of the client that belong to the surface t.
RoleObjectsOf(L, t) == {o \in L : o[2] = t}

\* A role that is set stays, and a surface has at most one role object: the
\* one its ext names.
RoleKept ==
    \A t \in DOMAIN xdg :
        /\ xdg[t].role # "None" => xdg'[t].role = xdg[t].role
        /\ Cardinality(RoleObjectsOf(live', t)) <= 1
        /\ xdg'[t].ext.some <=> (RoleObjectsOf(live', t) # {})
        /\ xdg'[t].ext.some =>
              /\ RoleObjectsOf(live', t) = {<<xdg'[t].ext.val.id, t>>}
              /\ xdg'[t].ext.val.kind = xdg'[t].role

\* A request for the other role fails and changes nothing.
OtherRoleRefused ==
    LET x == xdg[xcall'.s] IN
    (xcall'.op \in RoleRequests /\ x.role \notin {"None", RequestedRole(xcall'.op)}) =>
        /\ xcall'.ret = Err("IncompatibleRole")
        /\ xdg' = xdg
        /\ live' = live

\* The request is for the role the surface has, and a role object is attached.
AskedWhileAttached ==
    /\ xcall'.op \in RoleRequests
    /\ xdg[xcall'.s].role = RequestedRole(xcall'.op)
    /\ xdg[xcall'.s].ext.some

\* The parent or the positioner of the get_popup request names no object.
LookupFails ==
    /\ xcall'.op = "get_popup"
    /\ \/ /\ xcall'.args.parent.some
          /\ ~(xcall'.args.parent.val \in DOMAIN xdg /\ xdg[xcall'.args.parent.val].in_client)
       \/ xcall'.args.positioner = "unknown"

\* C35 as stated: a role that is set never changes; a request for the other
\* role fails with IncompatibleRole and changes nothing; every request made
\* while a role object is attached fails with AlreadyConstructed; at most one
\* role object is attached.
C35_AlreadyConstructedAlways ==
    [][ /\ RoleKept
        /\ OtherRoleRefused
        /\ AskedWhileAttached =>
              /\ xcall'.ret = Err("AlreadyConstructed")
              /\ xdg' = xdg
              /\ live' = live ]_vars

\* C35, amended: a role that is set never changes; a request for the other
\* role fails with IncompatibleRole and changes nothing; a request made
\* while a role object is attached fails and constructs nothing, with
\* AlreadyConstructed, except that get_popup fails with the error of
\* looking up its parent or positioner when that lookup fails, which comes
\* first; at most one role object is attached.
C35_OneRoleOneObject ==
    [][ /\ RoleKept
        /\ OtherRoleRefused
        /\ AskedWhileAttached =>
              /\ xcall'.ret = IF LookupFails THEN Err("ClientError")
                                             ELSE Err("AlreadyConstructed")
              /\ xdg' = xdg
              /\ live' = live ]_vars

\* get_popup on a surface with an attached popup and a positioner id that
\* names no object has failed with the error of the lookup.
C35_Witness ==
    /\ xcall.op = "get_popup"
    /\ xdg[xcall.s].role = "XdgPopup"
    /\ xdg[xcall.s].ext.some
    /\ xcall.args.positioner = "unknown"
    /\ xcall.ret = Err("ClientError")

\* get_toplevel on a surface with an attached toplevel: AlreadyConstructed.
C35_WitnessToplevel ==
    /\ xcall.op = "get_toplevel"
    /\ xdg[xcall.s].ext.some
    /\ xcall.ret = Err("AlreadyConstructed")

\* get_toplevel on a surface whose popup has been destroyed: IncompatibleRole.
C35_WitnessOtherRole ==
    /\ xcall.op = "get_toplevel"
    /\ xdg[xcall.s].role = "XdgPopup"
    /\ ~xdg[xcall.s].ext.some
    /\ xcall.ret = Err("IncompatibleRole")

-----------------------------------------------------------------------------
(* Properties of xdg_surface.destroy                                       *)

\* The surface t is the ext of its wl_surface and is registered with its
\* xdg_wm_base and its client.
Installed(x) == x.surface_ext /\ x.in_base /\ x.in_client

\* C36: destroy succeeds exactly when the surface has no role object and no
\* popups; with a role object it fails with RoleNotYetDestroyed, also when
\* there are popups, and without one but with popups it fails with
\* PopupsNotYetDestroyed; a destroy that fails changes nothing, so the
\* surface stays attached to its wl_surface and registered; a destroy that
\* succeeds detaches and unregisters it.
C36_DestroyChecks ==
    [][ xcall'.op = "destroy" =>
          LET s == xcall'.s
              x == xdg[s]
          IN  /\ xcall'.ret = ( IF x.ext.some THEN Err("RoleNotYetDestroyed")
                                ELSE IF x.popups # {} THEN Err("PopupsNotYetDestroyed")
                                ELSE Ok("done") )
              /\ ~xcall'.ret.ok => (xdg' = xdg /\ live' = live /\ Installed(xdg'[s]))
              /\ xcall'.ret.ok =>
                    /\ ~xdg'[s].surface_ext /\ ~xdg'[s].in_base /\ ~xdg'[s].in_client
                    /\ \A t \in DOMAIN xdg : t # s => xdg'[t] = xdg[t] ]_vars

\* destroy of a surface with a toplevel and a popup registered on it has
\* failed with RoleNotYetDestroyed.
C36_Witness ==
    /\ xcall.op = "destroy"
    /\ xdg[xcall.s].ext.some
    /\ xdg[xcall.s].popups # {}
    /\ xcall.ret = Err("RoleNotYetDestroyed")
    /\ Installed(xdg[xcall.s])

\* destroy of a surface without role object, with a popup registered on it.
C36_WitnessPopups ==
    /\ xcall.op = "destroy"
    /\ ~xdg[xcall.s].ext.some
    /\ xdg[xcall.s].popups # {}
    /\ xcall.ret = Err("PopupsNotYetDestroyed")
    /\ Installed(xdg[xcall.s])

\* destroy has succeeded for a surface that had a role.
C36_WitnessDestroyed ==
    /\ xcall.op = "destroy"
    /\ xcall.ret.ok
    /\ xdg[xcall.s].role # "None"
    /\ ~xdg[xcall.s].in_client

-----------------------------------------------------------------------------
(* Properties of the configure serials                                     *)

StrictlyIncreasing(q) == \A i, j \in DOMAIN q : i < j => q[i] < q[j]

\* C37: the serials sent are strictly increasing; the acknowledged serial,
\* if set, was sent in a configure event; an ack sets it exactly when its
\* serial is the one sent last, and leaves it unchanged otherwise, without
\* an error.
C37_AckedSerialWasSent ==
    /\ [](\A t \in DOMAIN xdg :
            /\ StrictlyIncreasing(xdg[t].sent)
            /\ xdg[t].acked_serial.some => xdg[t].acked_serial.val \in Range(xdg[t].sent))
    /\ [][ xcall'.op = "ack_configure" =>
             LET s == xcall'.s
                 x == xdg[s]
                 n == xcall'.args.serial
             IN  /\ xcall'.ret.ok
                 /\ xdg'[s].acked_serial =
                       ( IF x.sent # <<>> /\ n = x.sent[Len(x.sent)]
                         THEN Some(n) ELSE x.acked_serial ) ]_vars

====
